---------------------------- MODULE Spec2Model ----------------------------
(***************************************************************************)
(* The slab allocator with magazines (src/unnamed/part_000): one cache,    *)
(* its slab back-end, its depot, its per-CPU caches, and the callers that  *)
(* run kmem_cache_alloc / kmem_cache_free / kmem_cache_reap /              *)
(* kmem_cache_destroy on it from several CPUs and from interrupt context.  *)
(*                                                                         *)
(* The source arena and the three metadata caches (kmem_magazine_cache,    *)
(* kmem_slab_cache, kmem_bufctl_cache) are seen through the calls the      *)
(* cache makes on them.                                                    *)
(***************************************************************************)
EXTENDS Integers, Sequences, FiniteSets, TLC

\* ------------------------------------------------------------------ bounds
\* num_cores: one per-CPU cache per core (kmc_nr_pcpu_caches).
NCPU == 2
\* Object slots the source arena has memory for: it reports out-of-memory
\* once the regions it handed out hold that many.
MaxSlots == 4
\* Largest num_total_obj a cache configuration of the model gives a slab.
MaxTotal == 2
\* Magazines the magazine cache can hand out beyond the two per CPU.
MaxExtraMags == 1
\* Saturation of the per-magazine count of frees to the magazine cache.
MaxFreeCount == 2
\* Operations the callers begin in a run of the concurrent specification.
MaxOps == 7
\* Times the clock is seen to have moved on by more than resize_timeout_ns.
MaxClockJumps == 1
\* Operations the callers begin in a run of the resize specification.
MaxBurstOps == 16
\* log2 of PGSIZE, scaled down.
PGSHIFT == 5
\* sizeof(struct kmem_slab), scaled down with the page.
SlabRecSize == 4
\* Pages the page-aligned source arena of the layout specification has.
MaxPages == 2
\* CPUs that call lock_depot in the lock specification.
NLockCpus == 3
\* Times the clock is seen to have moved on by a nanosecond there.
MaxSmallTicks == 2
\* The most not-empty magazines the depot of the lock specification has.
MaxNotEmpty == 1
\* Calls in a run of the specification with wrong frees.
MaxBadOps == 6
\* Empty magazines in the magazine cache's own depot at the start.
MaxMcDepot == 1
\* Magazines the magazine cache's slab layer can still hand out.
MaxMcSpare == 1
\* Turns of depot_destroy's loops in a run of the magazine cache's
\* specification.
MaxMcFrees == 6
\* Magazines other CPUs obtain for their frees in such a run.
MaxMcOther == 2
\* Steps of one call's try_alloc or try_free loop that are followed.
McFuel == 8
\* CPUs of the specification of calls across caches.
NNestCpus == 2
\* Buffer addresses of the hash specification.
MaxHashAddrs == 4
\* __track_alloc calls in a run of the hash specification.
MaxTracks == 5
\* log2 of the number of lists of the static hash table.
HashInitBits == 1

\* --------------------------------------------------------------- tunables
\* Magazine capacities (slab.h) scaled down to the model's number of objects.
KMC_MAG_MIN_SZ == 1
KMC_MAG_MAX_SZ == 2
resize_threshold == 1
resize_timeout_ns == 1000000000

CPUs == 1..NCPU
Ctxs == 1..(NCPU + 1)
SlabIds == 1..MaxSlots
MagIds == 1..(2 * NCPU + MaxExtraMags)
Slots == SlabIds \X (1..MaxTotal)

NULL == <<0, 0>>
NOMAG == 0
\* SLAB_POISON ((void*)0xdead1111): a pointer that is no magazine.
SLAB_POISON == -1

MEM_ATOMIC == "MEM_ATOMIC"
MEM_ERROR == "MEM_ERROR"
\* The flag sets callers pass to kmem_cache_alloc.
AllocFlags == {{}, {MEM_ATOMIC}, {MEM_ERROR}}

VARIABLES
    cfg,        \* the cache's creation-time attributes (flags, ctor/dtor, slots per slab)
    cp,         \* slab layer of struct kmem_cache: slab lists, slab records, counters, hash
    cache_lock, \* holder of cp->cache_lock, 0 when free
    arena,      \* the source arena as the cache sees it
    aux,        \* objects outstanding from kmem_slab_cache and kmem_bufctl_cache
    mag,        \* the magazines: rounds, and their standing with kmem_magazine_cache
    pcc,        \* kc->pcpu_caches[]
    depot,      \* kc->depot
    ctx,        \* per execution context: position in the operation it runs, and its locals
    held,       \* per address: how many callers currently hold it
    constructed,\* per slot: successful ctor calls minus dtor calls
    ev,         \* what the step just taken completed (an operation's return), if anything
    now,        \* nsec(), as of its latest reading
    ops_left,   \* operations the callers may still begin (-1: no limit)
    actors,     \* the contexts that call into the cache in this run
    halted,     \* "run", or why the kernel stopped: "panic" / "fault"
    layout,     \* the addresses of one slab of the embedded layout
    boot,       \* kmem_cache_init: how far it is, and the magazine cache's slab layer
    lk,         \* lock_depot on its own: a depot's lock and accounting, and its callers
    hs,         \* the bufctl hash on its own: hash helper, table, base allocator
    nest,       \* calls across caches: each CPU's call stack and the locks it holds
    mc          \* the magazine cache's own magazine layer, its objects being magazines

vars == <<cfg, cp, cache_lock, arena, aux, mag, pcc, depot, ctx, held,
          constructed, ev, now, ops_left, actors, halted, layout, boot, lk,
          hs, nest, mc>>

\* ----------------------------------------------------------------- helpers
Range(s) == {s[i] : i \in DOMAIN s}
Cons(x, s) == <<x>> \o s
Remove(s, x) == SelectSeq(s, LAMBDA y : y # x)
MIN(a, b) == IF a < b THEN a ELSE b
SetMin(S) == CHOOSE x \in S : \A y \in S : x <= y

\* The CPU a context runs on: contexts 1..NCPU are the CPUs' threads, context
\* NCPU + 1 is an interrupt handler on CPU 1.
core_id(p) == IF p <= NCPU THEN p ELSE 1
IsIrq(p) == p > NCPU
IrqCtx == NCPU + 1

__use_bufctls == cfg.use_bufctl
num_total_obj == cfg.num_total_obj
SlotsOf(s) == {<<s, i>> : i \in 1..num_total_obj}

\* ------------------------------------------------------------ source arena
\* arena_alloc(cp->source, size, MEM_ATOMIC): a region not handed out before,
\* or NULL (0) when the arena cannot supply one.
ArenaCanSupply(A) == (A.nr_allocs + 1) * num_total_obj <= MaxSlots
ArenaAlloc(A) ==
    [A EXCEPT !.out = @ \cup {A.nr_allocs + 1}, !.nr_allocs = @ + 1]
\* arena_free(cp->source, addr, size): addr is slot `off` of region r.  A call
\* that does not pass the base of a region currently handed out is recorded.
ArenaFree(A, r, off) ==
    IF r \in A.out /\ off = 1
    THEN [A EXCEPT !.out = @ \ {r}]
    ELSE [A EXCEPT !.bad_free = TRUE]


\* ------------------------------------------------- the metadata caches' calls
\* kmem_cache_alloc / kmem_cache_free on kmem_slab_cache and kmem_bufctl_cache:
\* the objects outstanding from each; a free of an object not outstanding is
\* recorded.
AuxAllocSlab(X, s) == [X EXCEPT !.slabrecs = @ \cup {s}]
AuxFreeSlab(X, s) ==
    IF s \in X.slabrecs THEN [X EXCEPT !.slabrecs = @ \ {s}]
    ELSE [X EXCEPT !.bad_free = TRUE]
AuxAllocBufctls(X, S) == [X EXCEPT !.bufctls = @ \cup S]
AuxFreeBufctls(X, S) ==
    [X EXCEPT !.bufctls = @ \ S,
              !.bad_free = @ \/ ~(S \subseteq X.bufctls)]

\* -------------------------------------------------------------- slab back-end
\* The slab layer's operators work on W = [cp, arena, aux].

\* The freelist kmem_cache_grow builds: embedded, the slots in address order;
\* bufctl, each bufctl inserted at the head, so the last slot comes first.
GrowFreelist ==
    IF __use_bufctls
    THEN [i \in 1..num_total_obj |-> num_total_obj + 1 - i]
    ELSE [i \in 1..num_total_obj |-> i]

\* kmem_cache_grow that keeps the slab record when arena_alloc fails.
kmem_cache_grow_keeps_record(W, supplies) ==
    LET s == W.arena.nr_allocs + 1
        rec == [state |-> "live", num_busy_obj |-> 0, freelist |-> GrowFreelist]
        added(cp0) == [cp0 EXCEPT !.slab[s] = rec,
                                  !.empty_slab_list = Cons(s, @)]
    IN  IF ~__use_bufctls
        THEN IF ~supplies
             THEN [w |-> W, ok |-> FALSE]
             ELSE [w |-> [W EXCEPT !.arena = ArenaAlloc(@), !.cp = added(@)],
                   ok |-> TRUE]
        ELSE LET W1 == [W EXCEPT !.aux = AuxAllocSlab(@, s)]
             IN  IF ~supplies
                 THEN [w |-> W1, ok |-> FALSE]
                 ELSE [w |-> [W1 EXCEPT !.arena = ArenaAlloc(@),
                                        !.aux = AuxAllocBufctls(@, SlotsOf(s)),
                                        !.cp = added(@)],
                       ok |-> TRUE]

\* kmem_cache_grow(cp); supplies is whether arena_alloc returns a region.
\* Result: [w, ok].
kmem_cache_grow(W, supplies) ==
    LET s == W.arena.nr_allocs + 1
        rec == [state |-> "live", num_busy_obj |-> 0, freelist |-> GrowFreelist]
        added(cp0) == [cp0 EXCEPT !.slab[s] = rec,
                                  !.empty_slab_list = Cons(s, @)]
    IN  IF ~__use_bufctls
        THEN IF ~supplies
             THEN [w |-> W, ok |-> FALSE]
             ELSE [w |-> [W EXCEPT !.arena = ArenaAlloc(@), !.cp = added(@)],
                   ok |-> TRUE]
        ELSE LET W1 == [W EXCEPT !.aux = AuxAllocSlab(@, s)]
             IN  IF ~supplies
                 THEN [w |-> [W1 EXCEPT !.aux = AuxFreeSlab(@, s)], ok |-> FALSE]
                 ELSE [w |-> [W1 EXCEPT !.arena = ArenaAlloc(@),
                                        !.aux = AuxAllocBufctls(@, SlotsOf(s)),
                                        !.cp = added(@)],
                       ok |-> TRUE]

\* __kmem_alloc_from_slab without its __track_alloc.
__kmem_alloc_from_slab_no_track(W, supplies) ==
    LET need_grow == W.cp.partial_slab_list = <<>> /\ W.cp.empty_slab_list = <<>>
        G == IF need_grow THEN kmem_cache_grow(W, supplies)
             ELSE [w |-> W, ok |-> TRUE]
        W1 == G.w
    IN  IF ~G.ok THEN [w |-> W1, retval |-> NULL, grown_ok |-> FALSE]
        ELSE
        LET from_empty == W1.cp.partial_slab_list = <<>>
            a_slab == IF from_empty THEN Head(W1.cp.empty_slab_list)
                      ELSE Head(W1.cp.partial_slab_list)
            cp1 == IF from_empty
                   THEN [W1.cp EXCEPT !.empty_slab_list = Remove(@, a_slab),
                                      !.partial_slab_list = Cons(a_slab, @)]
                   ELSE W1.cp
            retval == <<a_slab, Head(cp1.slab[a_slab].freelist)>>
            cp2 == [cp1 EXCEPT !.slab[a_slab].freelist = Tail(@),
                               !.slab[a_slab].num_busy_obj = @ + 1]
            cp3 == IF cp2.slab[a_slab].num_busy_obj = num_total_obj
                   THEN [cp2 EXCEPT !.partial_slab_list = Remove(@, a_slab),
                                    !.full_slab_list = Cons(a_slab, @)]
                   ELSE cp2
            cp4 == [cp3 EXCEPT !.nr_cur_alloc = @ + 1]
        IN  [w |-> [W1 EXCEPT !.cp = cp4], retval |-> retval, grown_ok |-> TRUE]

\* __kmem_alloc_from_slab that grows whenever there is no partial slab.
__kmem_alloc_from_slab_ignores_empty(W, supplies) ==
    LET need_grow == W.cp.partial_slab_list = <<>>
        G == IF need_grow THEN kmem_cache_grow(W, supplies)
             ELSE [w |-> W, ok |-> TRUE]
        W1 == G.w
    IN  IF ~G.ok THEN [w |-> W1, retval |-> NULL, grown_ok |-> FALSE]
        ELSE
        LET from_empty == W1.cp.partial_slab_list = <<>>
            a_slab == IF from_empty THEN Head(W1.cp.empty_slab_list)
                      ELSE Head(W1.cp.partial_slab_list)
            cp1 == IF from_empty
                   THEN [W1.cp EXCEPT !.empty_slab_list = Remove(@, a_slab),
                                      !.partial_slab_list = Cons(a_slab, @)]
                   ELSE W1.cp
            retval == <<a_slab, Head(cp1.slab[a_slab].freelist)>>
            cp2 == [cp1 EXCEPT !.slab[a_slab].freelist = Tail(@),
                               !.slab[a_slab].num_busy_obj = @ + 1,
                               !.alloc_hash = IF __use_bufctls
                                              THEN @ \cup {retval} ELSE @]
            cp3 == IF cp2.slab[a_slab].num_busy_obj = num_total_obj
                   THEN [cp2 EXCEPT !.partial_slab_list = Remove(@, a_slab),
                                    !.full_slab_list = Cons(a_slab, @)]
                   ELSE cp2
            cp4 == [cp3 EXCEPT !.nr_cur_alloc = @ + 1]
        IN  [w |-> [W1 EXCEPT !.cp = cp4], retval |-> retval, grown_ok |-> TRUE]

\* The part of __kmem_alloc_from_slab that runs under cp->cache_lock.
\* Result: [w, retval, grown_ok]; retval is NULL when the grow failed.
__kmem_alloc_from_slab(W, supplies) ==
    LET need_grow == W.cp.partial_slab_list = <<>> /\ W.cp.empty_slab_list = <<>>
        G == IF need_grow THEN kmem_cache_grow(W, supplies)
             ELSE [w |-> W, ok |-> TRUE]
        W1 == G.w
    IN  IF ~G.ok THEN [w |-> W1, retval |-> NULL, grown_ok |-> FALSE]
        ELSE
        LET from_empty == W1.cp.partial_slab_list = <<>>
            a_slab == IF from_empty THEN Head(W1.cp.empty_slab_list)
                      ELSE Head(W1.cp.partial_slab_list)
            cp1 == IF from_empty
                   THEN [W1.cp EXCEPT !.empty_slab_list = Remove(@, a_slab),
                                      !.partial_slab_list = Cons(a_slab, @)]
                   ELSE W1.cp
            retval == <<a_slab, Head(cp1.slab[a_slab].freelist)>>
            cp2 == [cp1 EXCEPT !.slab[a_slab].freelist = Tail(@),
                               !.slab[a_slab].num_busy_obj = @ + 1,
                               !.alloc_hash = IF __use_bufctls
                                              THEN @ \cup {retval} ELSE @]
            cp3 == IF cp2.slab[a_slab].num_busy_obj = num_total_obj
                   THEN [cp2 EXCEPT !.partial_slab_list = Remove(@, a_slab),
                                    !.full_slab_list = Cons(a_slab, @)]
                   ELSE cp2
            cp4 == [cp3 EXCEPT !.nr_cur_alloc = @ + 1]
        IN  [w |-> [W1 EXCEPT !.cp = cp4], retval |-> retval, grown_ok |-> TRUE]

\* The slab __kmem_alloc_from_slab would read first (0 when it has to grow).
AllocSlabOf(cp0) ==
    IF cp0.partial_slab_list # <<>> THEN Head(cp0.partial_slab_list)
    ELSE IF cp0.empty_slab_list # <<>> THEN Head(cp0.empty_slab_list)
    ELSE 0

\* __kmem_free_to_slab without its a_slab->num_busy_obj--.
__kmem_free_to_slab_keeps_busy(cp0, buf) ==
    IF cp0.panic THEN cp0
    ELSE IF __use_bufctls /\ buf \notin cp0.alloc_hash
    THEN [cp0 EXCEPT !.panic = TRUE]
    ELSE
    LET a_slab == buf[1]
        cp1 == [cp0 EXCEPT !.alloc_hash = @ \ {buf},
                           !.slab[a_slab].freelist = Cons(buf[2], @),
                           !.nr_cur_alloc = @ - 1]
        busy == cp1.slab[a_slab].num_busy_obj
    IN  IF busy + 1 = num_total_obj
        THEN [cp1 EXCEPT !.full_slab_list = Remove(@, a_slab),
                         !.partial_slab_list = Cons(a_slab, @)]
        ELSE IF busy = 0
        THEN [cp1 EXCEPT !.partial_slab_list = Remove(@, a_slab),
                         !.empty_slab_list = Cons(a_slab, @)]
        ELSE cp1

\* __kmem_free_to_slab without its cp->nr_cur_alloc--.
__kmem_free_to_slab_keeps_count(cp0, buf) ==
    IF cp0.panic THEN cp0
    ELSE IF __use_bufctls /\ buf \notin cp0.alloc_hash
    THEN [cp0 EXCEPT !.panic = TRUE]
    ELSE
    LET a_slab == buf[1]
        cp1 == [cp0 EXCEPT !.alloc_hash = @ \ {buf},
                           !.slab[a_slab].freelist = Cons(buf[2], @),
                           !.slab[a_slab].num_busy_obj = @ - 1]
        busy == cp1.slab[a_slab].num_busy_obj
    IN  IF busy + 1 = num_total_obj
        THEN [cp1 EXCEPT !.full_slab_list = Remove(@, a_slab),
                         !.partial_slab_list = Cons(a_slab, @)]
        ELSE IF busy = 0
        THEN [cp1 EXCEPT !.partial_slab_list = Remove(@, a_slab),
                         !.empty_slab_list = Cons(a_slab, @)]
        ELSE cp1

\* __kmem_free_to_slab that takes the object off the counter before
\* __yank_bufctl looks for it.
__kmem_free_to_slab_counts_first(cp0, buf) ==
    IF cp0.panic THEN cp0
    ELSE IF __use_bufctls /\ buf \notin cp0.alloc_hash
    THEN [cp0 EXCEPT !.panic = TRUE, !.nr_cur_alloc = @ - 1]
    ELSE
    LET a_slab == buf[1]
        cp1 == [cp0 EXCEPT !.alloc_hash = @ \ {buf},
                           !.slab[a_slab].freelist = Cons(buf[2], @),
                           !.slab[a_slab].num_busy_obj = @ - 1,
                           !.nr_cur_alloc = @ - 1]
        busy == cp1.slab[a_slab].num_busy_obj
    IN  IF busy + 1 = num_total_obj
        THEN [cp1 EXCEPT !.full_slab_list = Remove(@, a_slab),
                         !.partial_slab_list = Cons(a_slab, @)]
        ELSE IF busy = 0
        THEN [cp1 EXCEPT !.partial_slab_list = Remove(@, a_slab),
                         !.empty_slab_list = Cons(a_slab, @)]
        ELSE cp1

\* __kmem_free_to_slab whose __yank_bufctl leaves the bufctl in the hash.
__kmem_free_to_slab_keeps_entry(cp0, buf) ==
    IF cp0.panic THEN cp0
    ELSE IF __use_bufctls /\ buf \notin cp0.alloc_hash
    THEN [cp0 EXCEPT !.panic = TRUE]
    ELSE
    LET a_slab == buf[1]
        cp1 == [cp0 EXCEPT !.slab[a_slab].freelist = Cons(buf[2], @),
                           !.slab[a_slab].num_busy_obj = @ - 1,
                           !.nr_cur_alloc = @ - 1]
        busy == cp1.slab[a_slab].num_busy_obj
    IN  IF busy + 1 = num_total_obj
        THEN [cp1 EXCEPT !.full_slab_list = Remove(@, a_slab),
                         !.partial_slab_list = Cons(a_slab, @)]
        ELSE IF busy = 0
        THEN [cp1 EXCEPT !.partial_slab_list = Remove(@, a_slab),
                         !.empty_slab_list = Cons(a_slab, @)]
        ELSE cp1

\* __kmem_free_to_slab(cp, buf), on the cache's slab state cp0.  In bufctl
\* mode an address with no entry in the hash panics (__yank_bufctl).
__kmem_free_to_slab(cp0, buf) ==
    IF cp0.panic THEN cp0
    ELSE IF __use_bufctls /\ buf \notin cp0.alloc_hash
    THEN [cp0 EXCEPT !.panic = TRUE]
    ELSE
    LET a_slab == buf[1]
        cp1 == [cp0 EXCEPT !.alloc_hash = @ \ {buf},
                           !.slab[a_slab].freelist = Cons(buf[2], @),
                           !.slab[a_slab].num_busy_obj = @ - 1,
                           !.nr_cur_alloc = @ - 1]
        busy == cp1.slab[a_slab].num_busy_obj
    IN  IF busy + 1 = num_total_obj
        THEN [cp1 EXCEPT !.full_slab_list = Remove(@, a_slab),
                         !.partial_slab_list = Cons(a_slab, @)]
        ELSE IF busy = 0
        THEN [cp1 EXCEPT !.partial_slab_list = Remove(@, a_slab),
                         !.empty_slab_list = Cons(a_slab, @)]
        ELSE cp1

\* drain_mag's loop over mag->rounds[0 .. nr_rounds-1], on the slab state.
RECURSIVE DrainRounds(_, _)
DrainRounds(cp0, rounds) ==
    IF rounds = <<>> THEN cp0
    ELSE DrainRounds(__kmem_free_to_slab(cp0, Head(rounds)), Tail(rounds))

\* kmem_slab_destroy without its arena_free.
kmem_slab_destroy_keeps_region(W, a_slab) ==
    LET fl == W.cp.slab[a_slab].freelist
        dead == [W.cp EXCEPT !.slab[a_slab].state = "destroyed"]
    IN  IF ~__use_bufctls
        THEN [W EXCEPT !.cp = dead]
        ELSE LET X1 == AuxFreeBufctls(W.aux, {<<a_slab, i>> : i \in Range(fl)})
             IN  [W EXCEPT !.aux = AuxFreeSlab(X1, a_slab), !.cp = dead]

\* kmem_slab_destroy(cp, a_slab), on W.  The slab record is not unlinked from
\* the list it is on.
kmem_slab_destroy(W, a_slab) ==
    LET fl == W.cp.slab[a_slab].freelist
        dead == [W.cp EXCEPT !.slab[a_slab].state = "destroyed"]
    IN  IF ~__use_bufctls
        THEN [W EXCEPT !.arena = ArenaFree(@, a_slab, 1), !.cp = dead]
        ELSE LET buf_start == IF fl = <<>> THEN 0 ELSE SetMin(Range(fl))
                 X1 == AuxFreeBufctls(W.aux, {<<a_slab, i>> : i \in Range(fl)})
             IN  [W EXCEPT !.arena = ArenaFree(@, a_slab, buf_start),
                           !.aux = AuxFreeSlab(X1, a_slab),
                           !.cp = dead]

\* The loop of kmem_cache_reap and of kmem_cache_destroy over the empty list.
RECURSIVE DestroySlabs(_, _)
DestroySlabs(W, list) ==
    IF list = <<>> THEN W
    ELSE DestroySlabs(kmem_slab_destroy(W, Head(list)), Tail(list))


\* ------------------------------------------------------------ initial state
\* The cache configurations of the model: layout, hooks, slots per slab.
Configs ==
    [use_bufctl : BOOLEAN, ctor : BOOLEAN, dtor : BOOLEAN,
     num_total_obj : 1..MaxTotal]

Idle == [pc |-> "idle", flags |-> {}, buf |-> NULL, time |-> 0, mag |-> NOMAG,
         i |-> 0]
NoEv == [op |-> "none", ctx |-> 0, val |-> NULL, expect |-> NULL,
         after |-> "", why |-> "", flags |-> {}]

\* depot_init
depot_init ==
    [not_empty |-> <<>>, empty |-> <<>>, nr_not_empty |-> 0, nr_empty |-> 0,
     magsize |-> KMC_MAG_MIN_SZ, busy_count |-> 0, busy_start |-> 0, lock |-> 0]

\* build_pcpu_caches: CPU i gets two fresh magazines straight from the
\* magazine cache's slab layer (__mag_ctor leaves them with no rounds).
build_pcpu_caches ==
    [i \in CPUs |-> [magsize |-> KMC_MAG_MIN_SZ,
                     loaded |-> 2 * i - 1, prev |-> 2 * i]]

\* The state __kmem_cache_create leaves.
InitCacheState ==
    /\ cp = [slab |-> [s \in SlabIds |->
                         [state |-> "none", num_busy_obj |-> 0, freelist |-> <<>>]],
             full_slab_list |-> <<>>, partial_slab_list |-> <<>>,
             empty_slab_list |-> <<>>, nr_cur_alloc |-> 0, alloc_hash |-> {},
             panic |-> FALSE]
    /\ cache_lock = 0
    /\ arena = [out |-> {}, nr_allocs |-> 0, bad_free |-> FALSE]
    /\ aux = [slabrecs |-> {}, bufctls |-> {}, bad_free |-> FALSE]
    /\ mag = [m \in MagIds |->
                [state |-> IF m <= 2 * NCPU THEN "live" ELSE "unalloc",
                 rounds |-> <<>>, nr_frees |-> 0]]
    /\ pcc = build_pcpu_caches
    /\ depot = depot_init
    /\ ctx = [p \in Ctxs |-> Idle]
    /\ held = [x \in Slots |-> 0]
    /\ constructed = [x \in Slots |-> 0]
    /\ ev = NoEv
    /\ now = 0
    /\ halted = "run"

InitCache ==
    /\ cfg \in {c \in Configs : c.ctor = c.dtor}
    /\ InitCacheState

\* The byte addresses of a slab are followed in the layout specification
\* only.
LayoutOff ==
    [pc |-> "off", obj_size |-> 0, align |-> 0, kc_obj_size |-> 0,
     a_page |-> 0, a_slab |-> 0, num_total_obj |-> 0, num_busy_obj |-> 0,
     free_small_obj |-> <<>>, list |-> "", retval |-> 0, out |-> {}]

\* The four caches kmem_cache_init creates, in the order of its calls.
ReservedCaches ==
    <<"kmem_magazine_cache", "kmem_cache_cache", "kmem_slab_cache",
      "kmem_bufctl_cache">>
\* Slabs the magazine cache may need for the magazines of those four.
BootSlabIds == 1..(Len(ReservedCaches) * 2 * NCPU)
NoPcpu == [i \in CPUs |-> [loaded |-> NULL, prev |-> NULL]]

\* kmem_cache_init is followed in the bootstrap specification only.
BootOff ==
    [pc |-> "off", kc |-> "", stmt |-> 0, i |-> 0,
     order |-> <<>>,
     fields |-> [c \in Range(ReservedCaches) |-> {}],
     pcpu |-> [c \in Range(ReservedCaches) |-> NoPcpu],
     mc |-> [slab |-> [s \in BootSlabIds |->
                         [state |-> "none", num_busy_obj |-> 0, freelist |-> <<>>]],
             full_slab_list |-> <<>>, partial_slab_list |-> <<>>,
             empty_slab_list |-> <<>>, nr_cur_alloc |-> 0, alloc_hash |-> {},
             panic |-> FALSE],
     base |-> [out |-> {}, nr_allocs |-> 0, bad_free |-> FALSE],
     paths |-> {}, bad_reads |-> {}]

\* lock_depot is followed on its own in the lock specification only: a depot
\* as depot_init leaves it, the CPUs outside lock_depot, the clock at 0, and
\* no contended acquisition counted so far.
LockCpus == 1..NLockCpus
LkIdle ==
    [depot |-> depot_init,
     cpu |-> [p \in LockCpus |-> [pc |-> "out", time |-> 0]],
     clock |-> 0, ticks |-> 0,
     burst |-> <<>>, magsize0 |-> KMC_MAG_MIN_SZ]

\* ------------------------------------------------------------ hash helper
\* The hash helper's functions are not part of the source at hand; they are
\* modelled after the specification: a table of 2^nr_hash_bits lists that is
\* to grow when the items exceed a load limit set for the table's size, the
\* next size being twice the current one, and a hash of the address into the
\* table's index range.
Pow2(n) == IF n = 0 THEN 1 ELSE 2 * 2^(n - 1)
hash_get_load_limit(nr_lists) == (nr_lists * 13) \div 20
hash_init_hh ==
    [nr_hash_lists |-> Pow2(HashInitBits), nr_hash_bits |-> HashInitBits,
     nr_items |-> 0, load_limit |-> hash_get_load_limit(Pow2(HashInitBits))]
hash_needs_more(hh) == hh.nr_items > hh.load_limit
hash_next_nr_lists(hh) == Pow2(hh.nr_hash_bits + 1)
hash_incr_nr_lists(hh) ==
    [hh EXCEPT !.nr_hash_bits = @ + 1, !.nr_hash_lists = Pow2(hh.nr_hash_bits + 1)]
hash_reset_load_limit(hh) ==
    [hh EXCEPT !.load_limit = hash_get_load_limit(hh.nr_hash_lists)]
hash_ptr(addr, bits) == addr % Pow2(bits)

\* The hash of a bufctl cache on its own: the helper, the table in use (list
\* i of the code is alloc_hash[i + 1], first bufctl first), whether it is
\* the cache's static table, the tables out of the base allocator, whether
\* the static table was given to base_free, and the buffers whose bufctls
\* are off their slab's freelist.
HashAddrs == 1..MaxHashAddrs
HashIdle ==
    [hh |-> hash_init_hh,
     alloc_hash |-> [i \in 1..Pow2(HashInitBits) |-> <<>>],
     is_static |-> TRUE, base_tables |-> 0, freed_static |-> FALSE,
     busy |-> {}]

\* Calls across caches: two user caches, "ub" with bufctls and "ue" with
\* embedded slabs, and the reserved caches.  Each CPU has a stack of calls
\* (innermost first) and the locks it holds, in the order it took them; a
\* lock is <<kind, cache>> with kind "pcc" (lock_pcu_cache on this CPU),
\* "depot" (lock_depot) or "cache" (cp->cache_lock).
NestCpus == 1..NNestCpus
UserCaches == {"ub", "ue"}
MetaCaches == {"kmem_slab_cache", "kmem_bufctl_cache"}
NestCaches ==
    UserCaches \cup MetaCaches \cup {"kmem_magazine_cache", "kmem_cache_cache"}
NestIdle ==
    [stack |-> [p \in NestCpus |-> <<>>], hold |-> [p \in NestCpus |-> <<>>],
     dead |-> {}, panic |-> FALSE]

\* The magazine cache seen as a cache whose objects are magazines.
\* Magazines 2c - 1 and 2c are loaded and prev of its per-CPU cache c; two
\* more belong to the depot of a user cache that is being destroyed, after
\* drain_pcpu_caches; some are empty magazines in its own depot; the rest
\* are free objects of its slab layer.  A
\* magazine has its rounds (nr_rounds is their number; a round is a
\* magazine or McObj, an object of a user cache) and its one SLIST link.
McObj == 0
McIds == 1..(2 * NCPU + 2 + MaxMcDepot + MaxMcSpare)
McStart(has_rounds, nr_empty, destroyer) ==
    LET A == 2 * NCPU + 1
        B == 2 * NCPU + 2
    IN  [mags |-> [m \in McIds |->
                     [rounds |-> IF has_rounds /\ m = A THEN <<McObj>> ELSE <<>>,
                      link |-> IF ~has_rounds /\ m = A THEN B
                               ELSE IF m > B /\ m < B + nr_empty THEN m + 1
                               ELSE 0]],
         free |-> {m \in McIds : m > B + nr_empty},
         pcc |-> [c \in 1..NCPU |-> [loaded |-> 2 * c - 1, prev |-> 2 * c,
                                     magsize |-> KMC_MAG_MIN_SZ]],
         depot |-> [not_empty |-> 0, nr_not_empty |-> 0,
                    empty |-> IF nr_empty > 0 THEN B + 1 ELSE 0,
                    nr_empty |-> nr_empty, magsize |-> KMC_MAG_MIN_SZ],
         kdepot |-> [not_empty |-> IF has_rounds THEN A ELSE 0,
                     empty |-> IF has_rounds THEN B ELSE A],
         destroyer |-> destroyer,
         assert_failed |-> FALSE, bad_free |-> FALSE, oom |-> FALSE,
         hung |-> FALSE, frees |-> 0, others |-> 0]
McIdle == McStart(FALSE, 0, 1)

Init ==
    /\ InitCache /\ ops_left = -1 /\ actors = {1}
    /\ layout = LayoutOff /\ boot = BootOff /\ lk = LkIdle /\ hs = HashIdle
    /\ nest = NestIdle
    /\ mc = McIdle

\* --------------------------------------------------------------- scheduling
Destroying == \E q \in Ctxs : ctx[q].pc = "d_depot"
\* Positions of a thread at which local interrupts are enabled in mid-operation.
IrqOpen == {"a_slab", "a_ctorfail", "f_magalloc", "f_addwait"}
\* A thread does not run while the handler that interrupted it runs.
CanStep(p) ==
    /\ halted = "run"
    /\ (~IsIrq(p) /\ core_id(p) = 1) => ctx[IrqCtx].pc = "idle"
\* A handler begins only where its CPU's thread has interrupts enabled.
CanStart(p) ==
    /\ CanStep(p)
    /\ p \in actors
    /\ ctx[p].pc = "idle"
    /\ ops_left # 0
    /\ ~Destroying
    /\ IF IsIrq(p) THEN ctx[core_id(p)].pc \in IrqOpen ELSE TRUE

\* Beginning an operation uses up one of the operations left.
Begin == ops_left' = IF ops_left > 0 THEN ops_left - 1 ELSE ops_left

\* The address a free just completed by p, with nothing run since, put back.
Expect(p) ==
    IF ev.ctx = p /\ ev.op = "free" THEN ev.val
    ELSE IF ev.ctx = p /\ ev.op = "alloc_part" THEN ev.expect
    ELSE NULL
\* How that free put it back: the `why` of its return.
After(p) ==
    IF ev.ctx = p /\ ev.op = "free" THEN ev.why
    ELSE IF ev.ctx = p /\ ev.op = "alloc_part" THEN ev.after
    ELSE ""

slabVars == <<cp, cache_lock, arena, aux>>
W == [cp |-> cp, arena |-> arena, aux |-> aux]

\* -------------------------------------------------------------------- depot
\* time - depot->busy_start > resize_timeout_ns, in uint64_t arithmetic: a
\* sample older than busy_start wraps to a huge difference.
WindowExpired(time, busy_start) ==
    IF time >= busy_start THEN time - busy_start > resize_timeout_ns ELSE TRUE

\* lock_depot's accounting, also putting magsize back to its minimum when a
\* new window starts.
lock_depot_account_new_window(D, time) ==
    IF D.nr_not_empty = 0 THEN D
    ELSE LET D1 == IF WindowExpired(time, D.busy_start)
                   THEN [D EXCEPT !.busy_count = 0, !.busy_start = time,
                                  !.magsize = KMC_MAG_MIN_SZ]
                   ELSE D
             D2 == [D1 EXCEPT !.busy_count = @ + 1]
         IN  IF D2.busy_count > resize_threshold
             THEN [D2 EXCEPT !.busy_count = 0,
                             !.magsize = MIN(KMC_MAG_MAX_SZ, @ + 1)]
             ELSE D2

\* lock_depot's accounting without its test of nr_not_empty.
lock_depot_account_no_skip(D, time) ==
    LET D1 == IF WindowExpired(time, D.busy_start)
              THEN [D EXCEPT !.busy_count = 0, !.busy_start = time]
              ELSE D
        D2 == [D1 EXCEPT !.busy_count = @ + 1]
    IN  IF D2.busy_count > resize_threshold
        THEN [D2 EXCEPT !.busy_count = 0,
                        !.magsize = MIN(KMC_MAG_MAX_SZ, @ + 1)]
        ELSE D2

\* lock_depot's accounting after a contended acquisition.
lock_depot_account(D, time) ==
    IF D.nr_not_empty = 0 THEN D
    ELSE LET D1 == IF WindowExpired(time, D.busy_start)
                   THEN [D EXCEPT !.busy_count = 0, !.busy_start = time]
                   ELSE D
             D2 == [D1 EXCEPT !.busy_count = @ + 1]
         IN  IF D2.busy_count > resize_threshold
             THEN [D2 EXCEPT !.busy_count = 0,
                             !.magsize = MIN(KMC_MAG_MAX_SZ, @ + 1)]
             ELSE D2

\* __return_to_depot without its mag_is_empty test.
__return_to_depot_always_empty(D, m, rounds) ==
    [D EXCEPT !.empty = Cons(m, @), !.nr_empty = @ + 1]

\* __return_to_depot(kc, mag), on the depot record.
__return_to_depot(D, m, rounds) ==
    IF rounds = <<>>
    THEN [D EXCEPT !.empty = Cons(m, @), !.nr_empty = @ + 1]
    ELSE [D EXCEPT !.not_empty = Cons(m, @), !.nr_not_empty = @ + 1]

\* What nsec() can return: the clock stands where it was last read, or has
\* moved on by more than resize_timeout_ns.
nsec ==
    IF now < MaxClockJumps * (resize_timeout_ns + 1)
    THEN {now, now + resize_timeout_ns + 1}
    ELSE {now}

\* lock_depot, first half: spin_trylock_irqsave.  On success p holds the lock
\* and goes to `got`; otherwise it samples the time and goes to `wait`.
lock_depot_try(p, got, wait, f) ==
    IF depot.lock = 0
    THEN /\ depot' = [depot EXCEPT !.lock = p]
         /\ ctx' = [ctx EXCEPT ![p] = [f EXCEPT !.pc = got]]
         /\ now' = now
    ELSE /\ depot' = depot
         /\ \E time \in nsec :
                /\ now' = time
                /\ ctx' = [ctx EXCEPT ![p] = [f EXCEPT !.pc = wait,
                                                       !.time = time]]

AfterWait(pc) ==
    CASE pc = "a_wait" -> "a_depot"
      [] pc = "f_wait" -> "f_depot"
      [] pc = "f_addwait" -> "f_add"

\* What a contended lock_depot did with the contention count.
LockOutcome(D, D1) ==
    IF D.nr_not_empty = 0 THEN "skipped"
    ELSE IF D1.busy_count # 0 THEN "counted"
    ELSE IF D1.magsize > D.magsize THEN "resized"
    ELSE "capped"

\* lock_depot, second half: spin_lock_irqsave returns, then the accounting.
DepotLockContended(p) ==
    /\ CanStep(p)
    /\ ctx[p].pc \in {"a_wait", "f_wait", "f_addwait"}
    /\ depot.lock = 0
    /\ depot' = lock_depot_account([depot EXCEPT !.lock = p], ctx[p].time)
    /\ ctx' = [ctx EXCEPT ![p].pc = AfterWait(@), ![p].time = 0]
    /\ ev' = [NoEv EXCEPT !.op = "lock_depot", !.ctx = p,
                          !.why = LockOutcome(depot, depot')]
    /\ UNCHANGED <<layout, boot, lk, hs, nest, mc, cfg, actors, ops_left, slabVars, mag, pcc, held, constructed, now, halted>>


\* __swap_mags(pcc), on the per-CPU caches.
__swap_mags(c) ==
    [pcc EXCEPT ![c].loaded = pcc[c].prev, ![c].prev = pcc[c].loaded]

\* --------------------------------------------------------- kmem_cache_alloc
\* The return of kmem_cache_alloc to its caller.
AllocReturn(p, ret, why) ==
    /\ held' = IF ret = NULL THEN held ELSE [held EXCEPT ![ret] = @ + 1]
    /\ ev' = [NoEv EXCEPT !.op = "alloc", !.ctx = p, !.val = ret, !.why = why,
                          !.expect = Expect(p), !.after = After(p)]

Top(rounds) == rounds[Len(rounds)]
\* Pop without the nr_rounds-- of the pop.
PopKeepsRound(rounds) == rounds
Pop(rounds) == SubSeq(rounds, 1, Len(rounds) - 1)

\* try_alloc that goes to the depot as soon as loaded is empty, without
\* looking at prev.
try_alloc_no_swap(p, flags) ==
    LET c == core_id(p)
        l == pcc[c].loaded
        f == [Idle EXCEPT !.flags = flags]
    IN  IF mag[l].rounds # <<>>
        THEN /\ mag' = [mag EXCEPT ![l].rounds = Pop(@)]
             /\ AllocReturn(p, Top(mag[l].rounds), "mag")
             /\ ctx' = [ctx EXCEPT ![p] = Idle]
             /\ UNCHANGED <<pcc, depot, now>>
        ELSE /\ lock_depot_try(p, "a_depot", "a_wait", f)
             /\ ev' = [NoEv EXCEPT !.op = "alloc_part", !.ctx = p,
                                   !.expect = Expect(p), !.after = After(p)]
             /\ UNCHANGED <<mag, pcc, held>>

\* try_alloc: under the per-CPU lock, pop from loaded, else swap with a
\* not-empty prev and pop, else go to the depot.
try_alloc(p, flags) ==
    LET c == core_id(p)
        l == pcc[c].loaded
        v == pcc[c].prev
        f == [Idle EXCEPT !.flags = flags]
    IN  IF mag[l].rounds # <<>>
        THEN /\ mag' = [mag EXCEPT ![l].rounds = Pop(@)]
             /\ AllocReturn(p, Top(mag[l].rounds), "mag")
             /\ ctx' = [ctx EXCEPT ![p] = Idle]
             /\ UNCHANGED <<pcc, depot, now>>
        ELSE IF mag[v].rounds # <<>>
        THEN /\ pcc' = __swap_mags(c)
             /\ LET l1 == pcc'[c].loaded
                IN  /\ mag' = [mag EXCEPT ![l1].rounds = Pop(@)]
                    /\ AllocReturn(p, Top(mag[l1].rounds), "mag")
             /\ ctx' = [ctx EXCEPT ![p] = Idle]
             /\ UNCHANGED <<depot, now>>
        ELSE /\ lock_depot_try(p, "a_depot", "a_wait", f)
             /\ ev' = [NoEv EXCEPT !.op = "alloc_part", !.ctx = p,
                                   !.expect = Expect(p), !.after = After(p)]
             /\ UNCHANGED <<mag, pcc, held>>

AllocCall(p, flags) ==
    /\ CanStart(p)
    /\ Begin
    /\ try_alloc(p, flags)
    /\ UNCHANGED <<layout, boot, lk, hs, nest, mc, cfg, actors, slabVars, constructed, halted>>

\* Back at try_alloc after the depot handed over a magazine.
AllocRetry(p) ==
    /\ CanStep(p)
    /\ ctx[p].pc = "a_try"
    /\ try_alloc(p, ctx[p].flags)
    /\ UNCHANGED <<layout, boot, lk, hs, nest, mc, cfg, actors, ops_left, slabVars, constructed, halted>>

\* Holding the depot lock: take the first not-empty magazine, or leave for
\* the slab layer.
AllocDepot(p) ==
    LET c == core_id(p)
        v == pcc[c].prev
    IN  /\ CanStep(p)
        /\ ctx[p].pc = "a_depot"
        /\ IF depot.not_empty # <<>>
           THEN LET m == Head(depot.not_empty)
                    D1 == [depot EXCEPT !.not_empty = Tail(@),
                                        !.nr_not_empty = @ - 1]
                    D2 == __return_to_depot(D1, v, mag[v].rounds)
                IN  /\ depot' = [D2 EXCEPT !.lock = 0]
                    /\ pcc' = [pcc EXCEPT ![c].prev = pcc[c].loaded,
                                          ![c].loaded = m]
                    /\ ctx' = [ctx EXCEPT ![p].pc = "a_try"]
           ELSE /\ depot' = [depot EXCEPT !.lock = 0]
                /\ ctx' = [ctx EXCEPT ![p].pc = "a_slab"]
                /\ pcc' = pcc
        /\ ev' = [NoEv EXCEPT !.op = "alloc_part", !.ctx = p,
                              !.expect = Expect(p), !.after = After(p)]
        /\ UNCHANGED <<layout, boot, lk, hs, nest, mc, cfg, actors, ops_left, slabVars, mag, held, constructed, now, halted>>

\* Whether the slab __kmem_alloc_from_slab reads is one whose record was
\* already destroyed (a stale entry of the empty list).
ReadsDestroyed(s) == s # 0 /\ cp.slab[s].state = "destroyed"

\* __kmem_alloc_from_slab up to the constructor call.  A failed grow unlocks
\* and raises error(ENOMEM) under MEM_ERROR, and panics otherwise.
GrowFailed(p, flags) ==
    /\ cache_lock' = 0
    /\ ctx' = [ctx EXCEPT ![p] = Idle]
    /\ held' = held
    /\ constructed' = constructed
    /\ IF MEM_ERROR \in flags
       THEN /\ ev' = [NoEv EXCEPT !.op = "alloc", !.ctx = p,
                                  !.why = "error_ENOMEM", !.flags = flags]
            /\ halted' = halted
       ELSE /\ ev' = [NoEv EXCEPT !.op = "alloc", !.ctx = p,
                                  !.why = "panic_OOM", !.flags = flags]
            /\ halted' = "panic"

AllocSlab(p) ==
    /\ CanStep(p)
    /\ ctx[p].pc = "a_slab"
    /\ cache_lock = 0
    /\ \E supplies \in {ArenaCanSupply(arena), FALSE},
          ctor_ok \in {TRUE, ~cfg.ctor},
          intact \in {TRUE, ~ReadsDestroyed(AllocSlabOf(cp))} :
        LET R == __kmem_alloc_from_slab(W, supplies)
            flags == ctx[p].flags
        IN  IF ~intact
            THEN /\ halted' = "fault"
                 /\ ev' = NoEv
                 /\ UNCHANGED <<slabVars, ctx, held, constructed>>
            ELSE
            /\ cp' = R.w.cp
            /\ arena' = R.w.arena
            /\ aux' = R.w.aux
            /\ IF ~R.grown_ok THEN GrowFailed(p, flags)
               ELSE IF ctor_ok
               THEN /\ cache_lock' = 0
                    /\ constructed' = IF cfg.ctor
                                      THEN [constructed EXCEPT ![R.retval] = @ + 1]
                                      ELSE constructed
                    /\ AllocReturn(p, R.retval, "slab")
                    /\ ctx' = [ctx EXCEPT ![p] = Idle]
                    /\ halted' = halted
               ELSE /\ cache_lock' = 0
                    /\ ctx' = [ctx EXCEPT ![p].pc = "a_ctorfail",
                                          ![p].buf = R.retval]
                    /\ ev' = [NoEv EXCEPT !.op = "alloc_part", !.ctx = p,
                                          !.expect = Expect(p),
                                          !.after = After(p)]
                    /\ UNCHANGED <<held, constructed, halted>>
    /\ UNCHANGED <<layout, boot, lk, hs, nest, mc, cfg, actors, ops_left, mag, pcc, depot, now>>

\* The constructor failed and alloc returns NULL without __kmem_free_to_slab.
AllocCtorFailNoFree(p) ==
    /\ CanStep(p)
    /\ ctx[p].pc = "a_ctorfail"
    /\ cache_lock = 0
    /\ AllocReturn(p, NULL, "ctor_failed")
    /\ ctx' = [ctx EXCEPT ![p] = Idle]
    /\ UNCHANGED <<layout, boot, lk, hs, nest, mc, cfg, actors, ops_left, slabVars, mag, pcc, depot, constructed, now, halted>>

\* The constructor failed: the object goes back to the slab, alloc returns NULL.
AllocCtorFail(p) ==
    /\ CanStep(p)
    /\ ctx[p].pc = "a_ctorfail"
    /\ cache_lock = 0
    /\ cp' = __kmem_free_to_slab(cp, ctx[p].buf)
    /\ halted' = IF cp'.panic THEN "panic" ELSE halted
    /\ AllocReturn(p, NULL, "ctor_failed")
    /\ ctx' = [ctx EXCEPT ![p] = Idle]
    /\ UNCHANGED <<layout, boot, lk, hs, nest, mc, cfg, actors, ops_left, cache_lock, arena, aux, mag, pcc, depot, constructed, now>>


\* ---------------------------------------------------------- kmem_cache_free
FreeReturn(p, buf, why) ==
    ev' = [NoEv EXCEPT !.op = "free", !.ctx = p, !.val = buf, !.why = why]

\* try_free that pushes on a prev with room without __swap_mags.
try_free_no_swap(p, buf, via) ==
    LET c == core_id(p)
        l == pcc[c].loaded
        v == pcc[c].prev
        f == [ctx[p] EXCEPT !.buf = buf]
    IN  IF Len(mag[l].rounds) < pcc[c].magsize
        THEN /\ mag' = [mag EXCEPT ![l].rounds = Append(@, buf)]
             /\ FreeReturn(p, buf, IF via = "" THEN "loaded" ELSE via)
             /\ ctx' = [ctx EXCEPT ![p] = Idle]
             /\ UNCHANGED <<pcc, depot, now>>
        ELSE IF Len(mag[v].rounds) < pcc[c].magsize
        THEN /\ mag' = [mag EXCEPT ![v].rounds = Append(@, buf)]
             /\ FreeReturn(p, buf, IF via = "" THEN "swap" ELSE via)
             /\ ctx' = [ctx EXCEPT ![p] = Idle]
             /\ UNCHANGED <<pcc, depot, now>>
        ELSE /\ lock_depot_try(p, "f_depot", "f_wait", f)
             /\ ev' = NoEv
             /\ UNCHANGED <<mag, pcc>>

\* try_free: under the per-CPU lock, push on loaded if it has room, else swap
\* with a prev that has room and push, else go to the depot.  via tells how
\* the free came back here: "" (the call), "depot" (an empty magazine taken
\* from the depot), "newmag" (a magazine got from the magazine cache first).
try_free(p, buf, via) ==
    LET c == core_id(p)
        l == pcc[c].loaded
        v == pcc[c].prev
        f == [ctx[p] EXCEPT !.buf = buf]
    IN  IF Len(mag[l].rounds) < pcc[c].magsize
        THEN /\ mag' = [mag EXCEPT ![l].rounds = Append(@, buf)]
             /\ FreeReturn(p, buf, IF via = "" THEN "loaded" ELSE via)
             /\ ctx' = [ctx EXCEPT ![p] = Idle]
             /\ UNCHANGED <<pcc, depot, now>>
        ELSE IF Len(mag[v].rounds) < pcc[c].magsize
        THEN /\ pcc' = __swap_mags(c)
             /\ mag' = [mag EXCEPT ![pcc'[c].loaded].rounds = Append(@, buf)]
             /\ FreeReturn(p, buf, IF via = "" THEN "swap" ELSE via)
             /\ ctx' = [ctx EXCEPT ![p] = Idle]
             /\ UNCHANGED <<depot, now>>
        ELSE /\ lock_depot_try(p, "f_depot", "f_wait", f)
             /\ ev' = NoEv
             /\ UNCHANGED <<mag, pcc>>

\* A caller frees an address it holds.
FreeCall(p, buf) ==
    /\ CanStart(p)
    /\ Begin
    /\ held[buf] > 0
    /\ held' = [held EXCEPT ![buf] = @ - 1]
    /\ try_free(p, buf, "")
    /\ UNCHANGED <<layout, boot, lk, hs, nest, mc, cfg, actors, slabVars, constructed, halted>>

FreeRetry(p) ==
    /\ CanStep(p)
    /\ ctx[p].pc = "f_try"
    /\ try_free(p, ctx[p].buf, IF ctx[p].mag # NOMAG THEN "newmag" ELSE "depot")
    /\ UNCHANGED <<layout, boot, lk, hs, nest, mc, cfg, actors, ops_left, slabVars, held, constructed, halted>>

\* FreeDepot that raises the per-CPU magsize by one on every visit instead of
\* copying the depot's.
FreeDepotBumpsLocal(p) ==
    LET c == core_id(p)
        v == pcc[c].prev
    IN  /\ CanStep(p)
        /\ ctx[p].pc = "f_depot"
        /\ IF depot.empty # <<>>
           THEN LET m == Head(depot.empty)
                    D1 == [depot EXCEPT !.empty = Tail(@), !.nr_empty = @ - 1]
                    D2 == __return_to_depot(D1, v, mag[v].rounds)
                IN  /\ depot' = [D2 EXCEPT !.lock = 0]
                    /\ pcc' = [pcc EXCEPT ![c].magsize = @ + 1,
                                          ![c].prev = pcc[c].loaded,
                                          ![c].loaded = m]
                    /\ ctx' = [ctx EXCEPT ![p].pc = "f_try"]
           ELSE /\ depot' = [depot EXCEPT !.lock = 0]
                /\ pcc' = [pcc EXCEPT ![c].magsize = @ + 1]
                /\ ctx' = [ctx EXCEPT ![p].pc = "f_magalloc"]
        /\ ev' = NoEv
        /\ UNCHANGED <<layout, boot, lk, hs, nest, mc, cfg, actors, ops_left, slabVars, mag, held, constructed, now, halted>>

\* FreeDepot without its refresh of the per-CPU magsize.
FreeDepotKeepsMagsize(p) ==
    LET c == core_id(p)
        v == pcc[c].prev
    IN  /\ CanStep(p)
        /\ ctx[p].pc = "f_depot"
        /\ IF depot.empty # <<>>
           THEN LET m == Head(depot.empty)
                    D1 == [depot EXCEPT !.empty = Tail(@), !.nr_empty = @ - 1]
                    D2 == __return_to_depot(D1, v, mag[v].rounds)
                IN  /\ depot' = [D2 EXCEPT !.lock = 0]
                    /\ pcc' = [pcc EXCEPT ![c].prev = pcc[c].loaded,
                                          ![c].loaded = m]
                    /\ ctx' = [ctx EXCEPT ![p].pc = "f_try"]
           ELSE /\ depot' = [depot EXCEPT !.lock = 0]
                /\ pcc' = pcc
                /\ ctx' = [ctx EXCEPT ![p].pc = "f_magalloc"]
        /\ ev' = NoEv
        /\ UNCHANGED <<layout, boot, lk, hs, nest, mc, cfg, actors, ops_left, slabVars, mag, held, constructed, now, halted>>

\* Holding the depot lock: refresh magsize, then take the first empty
\* magazine, or leave to get a new one from the magazine cache.
FreeDepot(p) ==
    LET c == core_id(p)
        v == pcc[c].prev
    IN  /\ CanStep(p)
        /\ ctx[p].pc = "f_depot"
        /\ IF depot.empty # <<>>
           THEN LET m == Head(depot.empty)
                    D1 == [depot EXCEPT !.empty = Tail(@), !.nr_empty = @ - 1]
                    D2 == __return_to_depot(D1, v, mag[v].rounds)
                IN  /\ depot' = [D2 EXCEPT !.lock = 0]
                    /\ pcc' = [pcc EXCEPT ![c].magsize = depot.magsize,
                                          ![c].prev = pcc[c].loaded,
                                          ![c].loaded = m]
                    /\ ctx' = [ctx EXCEPT ![p].pc = "f_try"]
           ELSE /\ depot' = [depot EXCEPT !.lock = 0]
                /\ pcc' = [pcc EXCEPT ![c].magsize = depot.magsize]
                /\ ctx' = [ctx EXCEPT ![p].pc = "f_magalloc"]
        /\ ev' = NoEv
        /\ UNCHANGED <<layout, boot, lk, hs, nest, mc, cfg, actors, ops_left, slabVars, mag, held, constructed, now, halted>>

\* The magazines kmem_magazine_cache has not handed out.
UnallocMags == {m \in MagIds : mag[m].state = "unalloc"}

\* kmem_cache_alloc(kmem_magazine_cache, MEM_ATOMIC): a magazine with no
\* rounds, or, when that cache has to grow and its arena cannot supply, the
\* panic of __kmem_alloc_from_slab (MEM_ATOMIC carries no MEM_ERROR).  Then
\* lock_depot to put the magazine on the empty list.
FreeMagAlloc(p) ==
    /\ CanStep(p)
    /\ ctx[p].pc = "f_magalloc"
    /\ \E supplies \in {UnallocMags # {}, FALSE} :
        IF supplies
        THEN LET m == SetMin(UnallocMags)
             IN  /\ mag' = [mag EXCEPT ![m].state = "live", ![m].rounds = <<>>]
                 /\ lock_depot_try(p, "f_add", "f_addwait",
                                   [ctx[p] EXCEPT !.mag = m])
                 /\ ev' = NoEv
                 /\ halted' = halted
        ELSE /\ halted' = "panic"
             /\ ev' = [NoEv EXCEPT !.op = "free", !.ctx = p,
                                   !.val = ctx[p].buf, !.why = "panic_OOM"]
             /\ UNCHANGED <<mag, depot, ctx, now>>
    /\ UNCHANGED <<layout, boot, lk, hs, nest, mc, cfg, actors, ops_left, slabVars, pcc, held, constructed>>

\* FreeAdd that retakes the per-CPU lock before unlock_depot.
FreeAddKeepsLock(p) ==
    /\ CanStep(p)
    /\ ctx[p].pc = "f_add"
    /\ depot' = [depot EXCEPT !.empty = Cons(ctx[p].mag, @),
                              !.nr_empty = @ + 1]
    /\ ctx' = [ctx EXCEPT ![p].pc = "f_try"]
    /\ ev' = NoEv
    /\ UNCHANGED <<layout, boot, lk, hs, nest, mc, cfg, actors, ops_left, slabVars, mag, pcc, held, constructed, now, halted>>

\* Holding the depot lock: the new magazine goes on the empty list; then the
\* per-CPU lock is retaken and the free retried.
FreeAdd(p) ==
    /\ CanStep(p)
    /\ ctx[p].pc = "f_add"
    /\ depot' = [depot EXCEPT !.empty = Cons(ctx[p].mag, @),
                              !.nr_empty = @ + 1, !.lock = 0]
    /\ ctx' = [ctx EXCEPT ![p].pc = "f_try"]
    /\ ev' = NoEv
    /\ UNCHANGED <<layout, boot, lk, hs, nest, mc, cfg, actors, ops_left, slabVars, mag, pcc, held, constructed, now, halted>>

\* ---------------------------------------------------------- kmem_cache_reap
\* Under the cache lock, kmem_slab_destroy on every slab of the empty list.
\* Walking over a record destroyed earlier reads freed memory: the walk goes
\* on with what the record last held, or the kernel faults.
kmem_cache_reap(p) ==
    /\ CanStart(p)
    /\ Begin
    /\ ~IsIrq(p)
    /\ cache_lock = 0
    /\ \E intact \in {TRUE, \A s \in Range(cp.empty_slab_list) :
                               cp.slab[s].state # "destroyed"} :
        IF intact
        THEN LET W1 == DestroySlabs(W, cp.empty_slab_list)
             IN  /\ cp' = W1.cp
                 /\ arena' = W1.arena
                 /\ aux' = W1.aux
                 /\ ev' = [NoEv EXCEPT !.op = "reap", !.ctx = p]
                 /\ halted' = halted
        ELSE /\ halted' = "fault"
             /\ ev' = NoEv
             /\ UNCHANGED <<cp, arena, aux>>
    /\ UNCHANGED <<layout, boot, lk, hs, nest, mc, cfg, actors, cache_lock, mag, pcc, depot, ctx, held, constructed, now>>

\* ------------------------------------------------------- kmem_cache_destroy
\* One turn of drain_pcpu_caches' loop on the depot record: loaded and prev of
\* per-CPU cache i go to the depot.
DrainPcpu(D, i) ==
    LET D1 == __return_to_depot(D, pcc[i].loaded, mag[pcc[i].loaded].rounds)
    IN  __return_to_depot(D1, pcc[i].prev, mag[pcc[i].prev].rounds)

\* kmem_cache_free(kmem_magazine_cache, mag_i), as the magazine cache sees it.
MagCacheFree(M, m) ==
    [M EXCEPT ![m].state = "freed", ![m].nr_frees = MIN(@ + 1, MaxFreeCount)]

\* kmem_cache_destroy up to drain_pcpu_caches' first lock_pcu_cache.  Nobody
\* else uses the cache any more.
DestroyCall(p) ==
    /\ CanStart(p)
    /\ Begin
    /\ ~IsIrq(p)
    /\ \A q \in Ctxs : ctx[q].pc = "idle"
    /\ ctx' = [ctx EXCEPT ![p].pc = "d_pcc", ![p].i = 1]
    /\ ev' = NoEv
    /\ UNCHANGED <<layout, boot, lk, hs, nest, mc, cfg, actors, slabVars, mag, pcc, depot, held, constructed, now, halted>>

\* drain_pcpu_caches, holding the per-CPU lock: lock_depot.  Nobody holds
\* the depot lock, so the try-lock succeeds.
DrainLockDepot(p) ==
    /\ CanStep(p)
    /\ ctx[p].pc = "d_pcc"
    /\ depot.lock = 0
    /\ depot' = [depot EXCEPT !.lock = p]
    /\ ctx' = [ctx EXCEPT ![p].pc = "d_drain"]
    /\ ev' = NoEv
    /\ UNCHANGED <<layout, boot, lk, hs, nest, mc, cfg, actors, ops_left, slabVars, mag, pcc, held, constructed, now, halted>>

\* drain_pcpu_caches, holding both locks: the two magazines go to the depot,
\* the depot is unlocked, the slots are poisoned, the per-CPU lock is
\* released.  Then the next turn's lock_pcu_cache or, after the last turn,
\* depot_destroy's lock_depot.
DrainReturn(p) ==
    /\ CanStep(p)
    /\ ctx[p].pc = "d_drain"
    /\ LET i == ctx[p].i
       IN  /\ depot' = [DrainPcpu(depot, i) EXCEPT
                           !.lock = IF i < NCPU THEN 0 ELSE p]
           /\ pcc' = [pcc EXCEPT ![i].loaded = SLAB_POISON,
                                 ![i].prev = SLAB_POISON]
           /\ ctx' = [ctx EXCEPT ![p].pc = IF i < NCPU THEN "d_pcc" ELSE "d_depot",
                                 ![p].i = IF i < NCPU THEN i + 1 ELSE 0]
    /\ ev' = NoEv
    /\ UNCHANGED <<layout, boot, lk, hs, nest, mc, cfg, actors, ops_left, slabVars, mag, held, constructed, now, halted>>

\* drain_mag without its destructor calls.
DtorRoundsNone(rounds) == constructed
\* The destructor calls of drain_mag.
DtorRounds(rounds) ==
    [x \in Slots |-> IF cfg.dtor /\ x \in Range(rounds)
                     THEN constructed[x] - 1 ELSE constructed[x]]

\* One turn of depot_destroy's first loop: drain the first not-empty magazine
\* and free it to the magazine cache.  The list is not advanced, so from the
\* second turn on the loop works on a magazine it has freed: it goes on with
\* what the magazine last held, or the kernel faults.
DepotDestroyNotEmpty(p) ==
    /\ halted = "run"
    /\ ctx[p].pc = "d_depot"
    /\ depot.not_empty # <<>>
    /\ LET m == Head(depot.not_empty)
       IN  \E intact \in {TRUE, mag[m].state # "freed"} :
            IF intact
            THEN /\ cp' = DrainRounds(cp, mag[m].rounds)
                 /\ constructed' = DtorRounds(mag[m].rounds)
                 /\ mag' = MagCacheFree([mag EXCEPT ![m].rounds = <<>>], m)
                 /\ halted' = IF cp'.panic THEN "panic" ELSE halted
            ELSE /\ halted' = "fault"
                 /\ UNCHANGED <<cp, constructed, mag>>
    /\ ev' = NoEv
    /\ UNCHANGED <<layout, boot, lk, hs, nest, mc, cfg, actors, ops_left, cache_lock, arena, aux, pcc, depot, ctx, held, now>>

\* One turn of depot_destroy's second loop: free the first empty magazine.
\* The list is not advanced.
DepotDestroyEmpty(p) ==
    /\ halted = "run"
    /\ ctx[p].pc = "d_depot"
    /\ depot.not_empty = <<>>
    /\ depot.empty # <<>>
    /\ LET m == Head(depot.empty)
       IN  \E intact \in {TRUE, mag[m].state # "freed"} :
            IF intact
            THEN /\ mag' = MagCacheFree(mag, m)
                 /\ halted' = halted
            ELSE /\ halted' = "fault"
                 /\ mag' = mag
    /\ ev' = NoEv
    /\ UNCHANGED <<layout, boot, lk, hs, nest, mc, cfg, actors, ops_left, slabVars, pcc, depot, ctx, held, constructed, now>>

\* ------------------------------------------------------------ specification
\* The steps of an operation under way in context p.
Step(p) ==
    \/ AllocRetry(p)
    \/ AllocDepot(p)
    \/ AllocSlab(p)
    \/ AllocCtorFail(p)
    \/ FreeRetry(p)
    \/ FreeDepot(p)
    \/ FreeMagAlloc(p)
    \/ FreeAdd(p)
    \/ DrainLockDepot(p)
    \/ DrainReturn(p)
    \/ DepotDestroyNotEmpty(p)
    \/ DepotDestroyEmpty(p)

\* One thread, on CPU 1, runs every operation of the cache, one at a time.
Next ==
    \/ \E flags \in AllocFlags : AllocCall(1, flags)
    \/ \E buf \in Slots : FreeCall(1, buf)
    \/ kmem_cache_reap(1)
    \/ DestroyCall(1)
    \/ Step(1)

Spec == Init /\ [][Next]_vars

\* kmem_cache_alloc and kmem_cache_free run concurrently: either from the
\* threads of CPU 1 and CPU 2, MaxOps calls in all, or from the thread of
\* CPU 1 and an interrupt handler that interrupts it.
InitConc ==
    /\ InitCache
    /\ \/ actors = {1, 2} /\ ops_left = MaxOps
       \/ actors = {1, IrqCtx} /\ ops_left = -1
    /\ layout = LayoutOff
    /\ boot = BootOff
    /\ lk = LkIdle /\ hs = HashIdle
    /\ nest = NestIdle
    /\ mc = McIdle

NextConc ==
    \E p \in Ctxs :
        \/ \E flags \in AllocFlags : AllocCall(p, flags)
        \/ \E buf \in Slots : FreeCall(p, buf)
        \/ AllocRetry(p)
        \/ AllocDepot(p)
        \/ AllocSlab(p)
        \/ AllocCtorFail(p)
        \/ FreeRetry(p)
        \/ FreeDepot(p)
        \/ FreeMagAlloc(p)
        \/ FreeAdd(p)
        \/ DepotLockContended(p)

SpecConc == InitConc /\ [][NextConc]_vars

\* A burst of kmem_cache_alloc(kc, 0) and kmem_cache_free from the threads of
\* CPU 1 and CPU 2 on a cache of the embedded layout without ctor and dtor,
\* MaxBurstOps calls in all: long enough for the depot to count contended
\* acquisitions up to a resize and for the per-CPU caches to pick it up.
InitResize ==
    /\ InitCache
    /\ cfg = [use_bufctl |-> FALSE, ctor |-> FALSE, dtor |-> FALSE,
              num_total_obj |-> MaxTotal]
    /\ actors = {1, 2}
    /\ ops_left = MaxBurstOps
    /\ layout = LayoutOff
    /\ boot = BootOff
    /\ lk = LkIdle /\ hs = HashIdle
    /\ nest = NestIdle
    /\ mc = McIdle

NextResize ==
    \E p \in CPUs :
        \/ AllocCall(p, {})
        \/ \E buf \in Slots : FreeCall(p, buf)
        \/ AllocRetry(p)
        \/ AllocDepot(p)
        \/ AllocSlab(p)
        \/ FreeRetry(p)
        \/ FreeDepot(p)
        \/ FreeMagAlloc(p)
        \/ FreeAdd(p)
        \/ DepotLockContended(p)

SpecResize == InitResize /\ [][NextResize]_vars

\* ------------------------------------------------------- the embedded layout
\* The byte addresses kmem_cache_grow and __kmem_alloc_from_slab compute for
\* a slab of the embedded layout, for the object sizes and alignments
\* __kmem_cache_create accepts for that layout.
PGSIZE == 2 ^ PGSHIFT
\* SLAB_LARGE_CUTOFF, PGSIZE / NUM_BUF_PER_SLAB (8).
SLAB_LARGE_CUTOFF == 2 ^ (PGSHIFT - 3)
ROUNDUP(a, b) == ((a + b - 1) \div b) * b
\* Powers of two up to PGSIZE: __kmem_cache_create panics on a larger align.
Aligns == {2 ^ k : k \in 0..PGSHIFT}
\* What arena_alloc(cp->source, PGSIZE, MEM_ATOMIC) can return from a
\* PGSIZE-aligned source.
PageBases == {n * PGSIZE : n \in 1..MaxPages}
cacheVars == <<cfg, cp, cache_lock, arena, aux, mag, pcc, depot, ctx, held,
               constructed, ev, now, ops_left, actors, halted>>

\* __kmem_cache_create, what decides the layout: kc->obj_size, and the test
\* of the requested size against SLAB_LARGE_CUTOFF, which leaves the cache
\* in the embedded layout.
LayoutCreate ==
    /\ layout.pc = "create"
    /\ layout.align <= PGSIZE
    /\ ~(layout.obj_size > SLAB_LARGE_CUTOFF)
    /\ layout' = [layout EXCEPT
                    !.pc = "grow",
                    !.kc_obj_size = ROUNDUP(layout.obj_size, layout.align)]
    /\ UNCHANGED <<cacheVars, boot, lk, hs, nest, mc>>

\* The free list kmem_cache_grow threads through the page: buf starts at
\* a_page, and each of num_total_obj - 1 turns links buf to buf + obj_size.
EmbeddedFreelist(a_page, obj_size, total) ==
    [i \in 1..(IF total > 0 THEN total ELSE 1) |-> a_page + (i - 1) * obj_size]

\* kmem_cache_grow, embedded layout.  With num_total_obj = 0 the loop bound
\* num_total_obj - 1 is -1 or, num_total_obj being unsigned, the largest
\* value of its type: the loop does not run, or runs on through the page and
\* past it.
LayoutGrow ==
    /\ layout.pc = "grow"
    /\ \E a_page \in PageBases :
        LET total == (PGSIZE - SlabRecSize) \div layout.kc_obj_size
        IN  \E runaway \in {FALSE, total = 0} :
            layout' =
                IF runaway THEN [layout EXCEPT !.pc = "fault", !.a_page = a_page]
                ELSE [layout EXCEPT
                        !.pc = "alloc",
                        !.a_page = a_page,
                        !.a_slab = a_page + PGSIZE - SlabRecSize,
                        !.num_total_obj = total,
                        !.num_busy_obj = 0,
                        !.free_small_obj =
                            EmbeddedFreelist(a_page, layout.kc_obj_size, total),
                        !.list = "empty"]
    /\ UNCHANGED <<cacheVars, boot, lk, hs, nest, mc>>

\* __kmem_alloc_from_slab on that slab, embedded layout: the slab is taken
\* from the partial list, or from the empty list and made partial; retval is
\* free_small_obj, which moves on to the address stored in the object; the
\* slab goes to the full list when num_busy_obj reaches num_total_obj.  A
\* partial slab whose free_small_obj is NULL is read through NULL.
LayoutAlloc ==
    /\ layout.pc = "alloc"
    /\ layout.list \in {"empty", "partial"}
    /\ layout' =
         IF layout.free_small_obj = <<>>
         THEN [layout EXCEPT !.pc = "fault"]
         ELSE [layout EXCEPT
                 !.retval = Head(layout.free_small_obj),
                 !.out = @ \cup {Head(layout.free_small_obj)},
                 !.free_small_obj = Tail(@),
                 !.num_busy_obj = @ + 1,
                 !.list = IF layout.num_busy_obj + 1 = layout.num_total_obj
                          THEN "full" ELSE "partial"]
    /\ UNCHANGED <<cacheVars, boot, lk, hs, nest, mc>>

\* A cache is created with an object size and an alignment for which
\* __kmem_cache_create chooses the embedded layout, grows one slab and hands
\* out its objects.
InitLayout ==
    /\ InitCache
    /\ cfg = [use_bufctl |-> FALSE, ctor |-> FALSE, dtor |-> FALSE,
              num_total_obj |-> MaxTotal]
    /\ actors = {}
    /\ ops_left = 0
    /\ \E obj_size \in 1..SLAB_LARGE_CUTOFF, align \in Aligns :
         layout = [LayoutOff EXCEPT !.pc = "create", !.obj_size = obj_size,
                                    !.align = align]
    /\ boot = BootOff
    /\ lk = LkIdle /\ hs = HashIdle
    /\ nest = NestIdle
    /\ mc = McIdle

NextLayout == LayoutCreate \/ LayoutGrow \/ LayoutAlloc

SpecLayout == InitLayout /\ [][NextLayout]_vars

\* ---------------------------------------------------------- kmem_cache_init
\* build_pcpu_caches before anything else of __kmem_cache_create.
CreateStmtsPcpuFirst ==
    <<"pcpu_caches", "cache_lock", "name", "obj_size", "import_amt", "align",
      "flags", "source", "full_slab_list", "partial_slab_list",
      "empty_slab_list", "ctor", "dtor", "priv", "nr_cur_alloc", "alloc_hash",
      "use_bufctl", "depot", "importer", "registered">>
\* The statements of __kmem_cache_create, each by what it initialises, in
\* their order in the function.
CreateStmts ==
    <<"cache_lock", "name", "obj_size", "import_amt", "align", "flags",
      "source", "full_slab_list", "partial_slab_list", "empty_slab_list",
      "ctor", "dtor", "priv", "nr_cur_alloc", "alloc_hash", "use_bufctl",
      "depot", "pcpu_caches", "importer", "registered">>

\* What __kmem_alloc_from_slab and the kmem_cache_grow it may call read of
\* the cache they work on, in the embedded layout.
SlabAllocReads ==
    {"cache_lock", "partial_slab_list", "empty_slab_list", "full_slab_list",
     "flags", "use_bufctl", "source", "obj_size", "nr_cur_alloc", "ctor", "priv"}

BootW == [cp |-> boot.mc, arena |-> boot.base,
          aux |-> [slabrecs |-> {}, bufctls |-> {}, bad_free |-> FALSE]]

\* kmem_cache_init calls __kmem_cache_create for the next reserved cache.
BootCreate ==
    /\ halted = "run"
    /\ boot.pc = "init"
    /\ Len(boot.order) < Len(ReservedCaches)
    /\ LET kc == ReservedCaches[Len(boot.order) + 1]
       IN  boot' = [boot EXCEPT !.pc = "create", !.kc = kc, !.stmt = 1,
                                !.order = Append(@, kc)]
    /\ UNCHANGED <<cacheVars, layout, lk, hs, nest, mc>>

\* The next statement of __kmem_cache_create, other than build_pcpu_caches.
\* The last one returns to kmem_cache_init.
BootCreateStmt ==
    /\ halted = "run"
    /\ boot.pc = "create"
    /\ boot.stmt <= Len(CreateStmts)
    /\ CreateStmts[boot.stmt] # "pcpu_caches"
    /\ boot' = [boot EXCEPT
                  !.fields[boot.kc] = @ \cup {CreateStmts[boot.stmt]},
                  !.stmt = @ + 1,
                  !.pc = IF boot.stmt < Len(CreateStmts) THEN "create"
                         ELSE IF Len(boot.order) < Len(ReservedCaches)
                         THEN "init" ELSE "done"]
    /\ UNCHANGED <<cacheVars, layout, lk, hs, nest, mc>>

\* __kmem_cache_create reaches kc->pcpu_caches = build_pcpu_caches().
BootBuildPcpu ==
    /\ halted = "run"
    /\ boot.pc = "create"
    /\ boot.stmt <= Len(CreateStmts)
    /\ CreateStmts[boot.stmt] = "pcpu_caches"
    /\ boot' = [boot EXCEPT !.pc = "pcpu", !.i = 1]
    /\ UNCHANGED <<cacheVars, layout, lk, hs, nest, mc>>

\* One magazine of build_pcpu_caches' loop:
\* __kmem_alloc_from_slab(kmem_magazine_cache, MEM_WAIT), first for loaded,
\* then for prev.  A failed grow panics (MEM_WAIT carries no MEM_ERROR);
\* __mag_ctor does not fail.
BootAllocMagazine ==
    /\ halted = "run"
    /\ boot.pc = "pcpu"
    /\ boot.i <= NCPU
    /\ \E supplies \in BOOLEAN :
        LET R == __kmem_alloc_from_slab(BootW, supplies)
            slot == IF boot.pcpu[boot.kc][boot.i].loaded = NULL
                    THEN "loaded" ELSE "prev"
            read == [boot EXCEPT
                       !.paths = @ \cup {"slab"},
                       !.bad_reads = @ \cup (SlabAllocReads
                                              \ boot.fields["kmem_magazine_cache"])]
        IN  IF ~R.grown_ok
            THEN /\ halted' = "panic"
                 /\ boot' = read
            ELSE /\ halted' = halted
                 /\ boot' = [read EXCEPT
                               !.mc = R.w.cp,
                               !.base = R.w.arena,
                               !.pcpu[boot.kc][boot.i][slot] = R.retval,
                               !.i = IF slot = "prev" THEN @ + 1 ELSE @]
    /\ UNCHANGED <<cfg, cp, cache_lock, arena, aux, mag, pcc, depot, ctx, held,
                   constructed, ev, now, ops_left, actors, layout, lk, hs, nest,
                   mc>>

\* build_pcpu_caches returns: kc->pcpu_caches is set.
BootPcpuBuilt ==
    /\ halted = "run"
    /\ boot.pc = "pcpu"
    /\ boot.i > NCPU
    /\ boot' = [boot EXCEPT !.pc = "create", !.i = 0,
                            !.fields[boot.kc] = @ \cup {"pcpu_caches"},
                            !.stmt = @ + 1]
    /\ UNCHANGED <<cacheVars, layout, lk, hs, nest, mc>>

\* kmem_cache_init starts with the four caches as the loader left them; the
\* magazine cache is of the embedded layout, with __mag_ctor and no dtor.
InitBoot ==
    /\ cfg \in {c \in Configs : ~c.use_bufctl /\ c.ctor /\ ~c.dtor}
    /\ InitCacheState
    /\ actors = {}
    /\ ops_left = 0
    /\ layout = LayoutOff
    /\ boot = [BootOff EXCEPT !.pc = "init"]
    /\ lk = LkIdle /\ hs = HashIdle
    /\ nest = NestIdle
    /\ mc = McIdle

NextBoot ==
    \/ BootCreate
    \/ BootCreateStmt
    \/ BootBuildPcpu
    \/ BootAllocMagazine
    \/ BootPcpuBuilt

SpecBoot == InitBoot /\ [][NextBoot]_vars

\* --------------------------------------------------------------- lock_depot
\* lock_depot called from NLockCpus CPUs on one depot, whose holders take
\* magazines from the not-empty list and put magazines on it.

\* What nsec() can return there: the clock stands, has moved on by a
\* nanosecond, or has moved on by more than resize_timeout_ns.
LkNsec ==
    {lk.clock}
    \cup (IF lk.ticks < MaxSmallTicks THEN {lk.clock + 1} ELSE {})
    \cup (IF lk.clock < MaxClockJumps * (resize_timeout_ns + 1)
          THEN {lk.clock + resize_timeout_ns + 1} ELSE {})

\* lock_depot up to spin_lock_irqsave: the try-lock succeeds and lock_depot
\* returns, or it fails, the time is sampled and the CPU spins.
LkTryLock(p) ==
    /\ lk.cpu[p].pc = "out"
    /\ IF lk.depot.lock = 0
       THEN lk' = [lk EXCEPT !.depot.lock = p, !.cpu[p].pc = "in"]
       ELSE \E time \in LkNsec :
              lk' = [lk EXCEPT !.cpu[p] = [pc |-> "spin", time |-> time],
                               !.clock = time,
                               !.ticks = IF time = lk.clock + 1 THEN @ + 1 ELSE @]
    /\ UNCHANGED <<cacheVars, layout, boot, hs, nest, mc>>

\* spin_lock_irqsave returns, then the accounting.  burst collects the
\* sampled times of the contended acquisitions that found a not-empty
\* magazine, resize_threshold + 1 at a time, and magsize0 the magsize before
\* the first of them.
LkSpinLock(p) ==
    /\ lk.cpu[p].pc = "spin"
    /\ lk.depot.lock = 0
    /\ LET time == lk.cpu[p].time
           counted == lk.depot.nr_not_empty # 0
           fresh == Len(lk.burst) = resize_threshold + 1
       IN  lk' = [lk EXCEPT
                    !.depot = lock_depot_account([lk.depot EXCEPT !.lock = p], time),
                    !.cpu[p] = [pc |-> "in", time |-> 0],
                    !.burst = IF ~counted THEN @
                              ELSE IF fresh THEN <<time>>
                              ELSE Append(@, time),
                    !.magsize0 = IF counted /\ (fresh \/ lk.burst = <<>>)
                                 THEN lk.depot.magsize ELSE @]
    /\ UNCHANGED <<cacheVars, layout, boot, hs, nest, mc>>

\* unlock_depot, after the holder has taken a magazine from the not-empty
\* list, put one on it, or left it alone.
LkUnlock(p) ==
    /\ lk.cpu[p].pc = "in"
    /\ \E n \in 0..MaxNotEmpty :
         lk' = [lk EXCEPT !.depot.lock = 0,
                          !.depot.not_empty = [i \in 1..n |-> i],
                          !.depot.nr_not_empty = n,
                          !.cpu[p].pc = "out"]
    /\ UNCHANGED <<cacheVars, layout, boot, hs, nest, mc>>

InitLockDepot ==
    /\ InitCache
    /\ cfg = [use_bufctl |-> FALSE, ctor |-> FALSE, dtor |-> FALSE,
              num_total_obj |-> MaxTotal]
    /\ actors = {}
    /\ ops_left = 0
    /\ layout = LayoutOff
    /\ boot = BootOff
    /\ lk = LkIdle /\ hs = HashIdle
    /\ nest = NestIdle
    /\ mc = McIdle

NextLockDepot ==
    \E p \in LockCpus : LkTryLock(p) \/ LkSpinLock(p) \/ LkUnlock(p)

SpecLockDepot == InitLockDepot /\ [][NextLockDepot]_vars

\* ----------------------------------------------------- calls across caches
\* What a call finds in the magazines, the depot and the slab lists is left
\* open: each branch of the code is taken in some run.  The locks, the calls
\* and the order of both are the code's.
NestUsesBufctls(kc) == kc = "ub"
NestHolds(p, l) == \E i \in 1..Len(nest.hold[p]) : nest.hold[p][i] = l
NestLockFree(l) == \A q \in NestCpus : ~NestHolds(q, l)
NestFrame(fn, kc, pc) == [fn |-> fn, kc |-> kc, pc |-> pc]
NestTop(p) == Head(nest.stack[p])
NestAt(p, fns, pcs) ==
    /\ ~nest.panic
    /\ nest.stack[p] # <<>>
    /\ NestTop(p).fn \in fns
    /\ NestTop(p).pc \in pcs
NestGoto(N, p, pc) ==
    [N EXCEPT !.stack[p] = Cons([Head(@) EXCEPT !.pc = pc], Tail(@))]
NestAcquire(N, p, l) == [N EXCEPT !.hold[p] = Append(@, l)]
NestRelease(N, p, l) == [N EXCEPT !.hold[p] = Remove(@, l)]
NestPush(N, p, fn, kc, pc) ==
    [N EXCEPT !.stack[p] = Cons(NestFrame(fn, kc, pc), @)]
NestReturn(N, p) == [N EXCEPT !.stack[p] = Tail(@)]
NestQuiet == UNCHANGED <<cacheVars, layout, boot, lk, hs, mc>>

\* A CPU calls kmem_cache_alloc, kmem_cache_free, kmem_cache_reap or
\* kmem_cache_destroy on a user cache.  A cache is destroyed once, by a CPU
\* that has it to itself.
NestCall(p, fn, kc) ==
    /\ ~nest.panic
    /\ nest.stack[p] = <<>>
    /\ kc \in UserCaches \ nest.dead
    /\ \A q \in NestCpus \ {p} :
          nest.stack[q] # <<>> =>
             LET bottom == nest.stack[q][Len(nest.stack[q])]
             IN  bottom.kc = kc => (fn # "destroy" /\ bottom.fn # "destroy")
    /\ nest' = NestPush(nest, p, fn, kc,
                        CASE fn = "alloc" -> "a_pcc"
                          [] fn = "free" -> "f_pcc"
                          [] fn = "reap" -> "k_lock"
                          [] fn = "destroy" -> "d_pcc")
    /\ NestQuiet

\* kmem_cache_alloc: lock_pcu_cache.
NestAllocPcc(p) ==
    /\ NestAt(p, {"alloc"}, {"a_pcc"})
    /\ nest' = NestGoto(NestAcquire(nest, p, <<"pcc", NestTop(p).kc>>), p, "a_try")
    /\ NestQuiet

\* kmem_cache_alloc at try_alloc: a round in loaded or prev is returned, or
\* the depot is next.  At a_hit a magazine with rounds was just loaded.
NestAllocTry(p) ==
    /\ NestAt(p, {"alloc"}, {"a_try", "a_hit"})
    /\ \/ nest' = NestReturn(NestRelease(nest, p, <<"pcc", NestTop(p).kc>>), p)
       \/ /\ NestTop(p).pc = "a_try"
          /\ nest' = NestGoto(nest, p, "a_depot")
    /\ NestQuiet

\* kmem_cache_alloc: lock_depot, under the pcc lock.
NestAllocLockDepot(p) ==
    /\ NestAt(p, {"alloc"}, {"a_depot"})
    /\ NestLockFree(<<"depot", NestTop(p).kc>>)
    /\ nest' = NestGoto(NestAcquire(nest, p, <<"depot", NestTop(p).kc>>), p,
                        "a_indepot")
    /\ NestQuiet

\* kmem_cache_alloc that goes to the slab layer with both locks held.
NestAllocInDepotKeepsLocks(p) ==
    /\ NestAt(p, {"alloc"}, {"a_indepot"})
    /\ LET kc == NestTop(p).kc
           N1 == NestRelease(nest, p, <<"depot", kc>>)
       IN  \/ nest' = NestGoto(N1, p, "a_hit")
           \/ nest' = NestGoto(nest, p, "s_lock")
    /\ NestQuiet

\* kmem_cache_alloc with the depot locked: a not-empty magazine is loaded,
\* or both locks are released and __kmem_alloc_from_slab is next.
NestAllocInDepot(p) ==
    /\ NestAt(p, {"alloc"}, {"a_indepot"})
    /\ LET kc == NestTop(p).kc
           N1 == NestRelease(nest, p, <<"depot", kc>>)
       IN  \/ nest' = NestGoto(N1, p, "a_hit")
           \/ nest' = NestGoto(NestRelease(N1, p, <<"pcc", kc>>), p, "s_lock")
    /\ NestQuiet

\* __kmem_alloc_from_slab: spin_lock_irqsave(&cp->cache_lock).
NestSlabLock(p) ==
    /\ NestAt(p, {"alloc"}, {"s_lock"})
    /\ NestLockFree(<<"cache", NestTop(p).kc>>)
    /\ nest' = NestGoto(NestAcquire(nest, p, <<"cache", NestTop(p).kc>>), p, "s_in")
    /\ NestQuiet

\* __kmem_alloc_from_slab under the cache lock: a slab is at hand and an
\* object is taken, or kmem_cache_grow runs: with embedded slabs arena_alloc
\* gives a page or fails (panic after the unlock); with bufctls the slab
\* record is allocated from kmem_slab_cache first.
NestSlabIn(p) ==
    /\ NestAt(p, {"alloc"}, {"s_in"})
    /\ LET kc == NestTop(p).kc
           N1 == NestRelease(nest, p, <<"cache", kc>>)
       IN  \/ nest' = NestGoto(N1, p, "s_ctor")
           \/ /\ ~NestUsesBufctls(kc)
              /\ nest' = [N1 EXCEPT !.panic = TRUE]
           \/ /\ NestUsesBufctls(kc)
              /\ nest' = NestPush(NestGoto(nest, p, "g_arena"), p,
                                  "alloc", "kmem_slab_cache", "a_pcc")
    /\ NestQuiet

\* kmem_cache_grow with bufctls, after the slab record: arena_alloc gives
\* the buffer, or fails and the slab record is freed to kmem_slab_cache.
NestGrowArena(p) ==
    /\ NestAt(p, {"alloc"}, {"g_arena"})
    /\ \/ nest' = NestGoto(nest, p, "g_bufctl")
       \/ nest' = NestPush(NestGoto(nest, p, "g_fail"), p,
                           "free", "kmem_slab_cache", "f_pcc")
    /\ NestQuiet

\* kmem_cache_grow with bufctls: one more bufctl from kmem_bufctl_cache, or
\* the slab is complete: an object is taken and the cache lock released.
NestGrowBufctl(p) ==
    /\ NestAt(p, {"alloc"}, {"g_bufctl"})
    /\ \/ nest' = NestPush(nest, p, "alloc", "kmem_bufctl_cache", "a_pcc")
       \/ nest' = NestGoto(NestRelease(nest, p, <<"cache", NestTop(p).kc>>), p,
                           "s_ctor")
    /\ NestQuiet

\* kmem_cache_grow returned FALSE: unlock and panic.
NestGrowFail(p) ==
    /\ NestAt(p, {"alloc"}, {"g_fail"})
    /\ nest' = [NestRelease(nest, p, <<"cache", NestTop(p).kc>>)
                  EXCEPT !.panic = TRUE]
    /\ NestQuiet

\* __kmem_alloc_from_slab that gives the object of a failed constructor to
\* kmem_cache_free.
NestSlabCtorFrees(p) ==
    /\ NestAt(p, {"alloc"}, {"s_ctor"})
    /\ \/ nest' = NestReturn(nest, p)
       \/ /\ NestTop(p).kc \in UserCaches
          /\ nest' = NestPush(NestGoto(nest, p, "s_done"), p,
                              "free", NestTop(p).kc, "f_pcc")
    /\ NestQuiet

\* __kmem_alloc_from_slab after the unlock: the object is returned, or a
\* user cache's constructor fails and __kmem_free_to_slab is next.
NestSlabCtor(p) ==
    /\ NestAt(p, {"alloc"}, {"s_ctor"})
    /\ \/ nest' = NestReturn(nest, p)
       \/ /\ NestTop(p).kc \in UserCaches
          /\ nest' = NestGoto(nest, p, "sf_lock")
    /\ NestQuiet

\* __kmem_free_to_slab: spin_lock_irqsave(&cp->cache_lock); called after a
\* failed constructor (sf_lock) and by drain_mag (dd_rlock).
NestFreeSlabLock(p) ==
    /\ NestAt(p, {"alloc", "destroy"}, {"sf_lock", "dd_rlock"})
    /\ NestLockFree(<<"cache", NestTop(p).kc>>)
    /\ nest' = NestGoto(NestAcquire(nest, p, <<"cache", NestTop(p).kc>>), p,
                        IF NestTop(p).pc = "sf_lock" THEN "sf_in" ELSE "dd_rin")
    /\ NestQuiet

\* __kmem_free_to_slab: the unlock; drain_mag goes on with its magazine,
\* the other callers return.
NestFreeSlabIn(p) ==
    /\ NestAt(p, {"alloc", "destroy"}, {"sf_in", "dd_rin"})
    /\ LET N1 == NestRelease(nest, p, <<"cache", NestTop(p).kc>>)
       IN  nest' = IF NestTop(p).pc = "dd_rin"
                   THEN NestGoto(N1, p, "dd_drain")
                   ELSE NestReturn(N1, p)
    /\ NestQuiet

\* kmem_cache_free: lock_pcu_cache.
NestFreePcc(p) ==
    /\ NestAt(p, {"free"}, {"f_pcc"})
    /\ nest' = NestGoto(NestAcquire(nest, p, <<"pcc", NestTop(p).kc>>), p,
                        "f_try")
    /\ NestQuiet

\* kmem_cache_free at try_free: loaded or prev has room and takes the
\* object, or the depot is next.  At f_room a magazine with room is loaded.
NestFreeTry(p) ==
    /\ NestAt(p, {"free"}, {"f_try", "f_room"})
    /\ \/ nest' = NestReturn(NestRelease(nest, p, <<"pcc", NestTop(p).kc>>), p)
       \/ /\ NestTop(p).pc = "f_try"
          /\ nest' = NestGoto(nest, p, "f_depot")
    /\ NestQuiet

\* kmem_cache_free: lock_depot, under the pcc lock, and again to insert the
\* new magazine, with no lock held.
NestFreeLockDepot(p) ==
    /\ NestAt(p, {"free"}, {"f_depot", "f_ins"})
    /\ NestLockFree(<<"depot", NestTop(p).kc>>)
    /\ nest' = NestGoto(NestAcquire(nest, p, <<"depot", NestTop(p).kc>>), p,
                        IF NestTop(p).pc = "f_depot" THEN "f_indepot"
                        ELSE "f_insd")
    /\ NestQuiet

\* kmem_cache_free that keeps the depot lock while it allocates a magazine.
NestFreeInDepotKeepsDepot(p) ==
    /\ NestAt(p, {"free"}, {"f_indepot"})
    /\ LET kc == NestTop(p).kc
           N1 == NestRelease(nest, p, <<"depot", kc>>)
       IN  \/ nest' = NestGoto(N1, p, "f_room")
           \/ nest' = NestPush(NestGoto(NestRelease(nest, p, <<"pcc", kc>>), p,
                                        "f_ins"),
                               p, "alloc", "kmem_magazine_cache", "a_pcc")
    /\ NestQuiet

\* kmem_cache_free with the depot locked: an empty magazine is loaded, or
\* both locks are released and a magazine is allocated from
\* kmem_magazine_cache.
NestFreeInDepot(p) ==
    /\ NestAt(p, {"free"}, {"f_indepot"})
    /\ LET kc == NestTop(p).kc
           N1 == NestRelease(nest, p, <<"depot", kc>>)
       IN  \/ nest' = NestGoto(N1, p, "f_room")
           \/ nest' = NestPush(NestGoto(NestRelease(N1, p, <<"pcc", kc>>), p,
                                        "f_ins"),
                               p, "alloc", "kmem_magazine_cache", "a_pcc")
    /\ NestQuiet

\* kmem_cache_free: the new magazine is on the empty list; unlock_depot,
\* lock_pcu_cache, try_free.
NestFreeInserted(p) ==
    /\ NestAt(p, {"free"}, {"f_insd"})
    /\ LET kc == NestTop(p).kc
       IN  nest' = NestGoto(NestAcquire(NestRelease(nest, p, <<"depot", kc>>),
                                        p, <<"pcc", kc>>), p, "f_try")
    /\ NestQuiet

\* kmem_cache_reap, and the end of kmem_cache_destroy:
\* spin_lock_irqsave(&cp->cache_lock).
NestReapLock(p) ==
    /\ NestAt(p, {"reap", "destroy"}, {"k_lock"})
    /\ NestLockFree(<<"cache", NestTop(p).kc>>)
    /\ nest' = NestGoto(NestAcquire(nest, p, <<"cache", NestTop(p).kc>>), p, "k_in")
    /\ NestQuiet

\* The loop over the empty slabs under the cache lock: no slab is left
\* (unlock; kmem_cache_destroy then frees the cache to kmem_cache_cache),
\* or kmem_slab_destroy runs on the next, which with bufctls frees the
\* bufctls and the slab record.
NestReapIn(p) ==
    /\ NestAt(p, {"reap", "destroy"}, {"k_in"})
    /\ LET kc == NestTop(p).kc
           N1 == NestRelease(nest, p, <<"cache", kc>>)
       IN  \/ /\ NestTop(p).fn = "reap"
              /\ nest' = NestReturn(N1, p)
           \/ /\ NestTop(p).fn = "destroy"
              /\ nest' = NestPush(NestGoto([N1 EXCEPT !.dead = @ \cup {kc}], p,
                                           "d_end"),
                                  p, "free", "kmem_cache_cache", "f_pcc")
           \/ /\ NestUsesBufctls(kc)
              /\ nest' = NestGoto(nest, p, "k_bc")
    /\ NestQuiet

\* kmem_slab_destroy with bufctls: kmem_cache_free of one bufctl of the
\* freelist, or, after the last, of the slab record.
NestSlabDestroy(p) ==
    /\ NestAt(p, {"reap", "destroy"}, {"k_bc"})
    /\ \/ nest' = NestPush(nest, p, "free", "kmem_bufctl_cache", "f_pcc")
       \/ nest' = NestPush(NestGoto(nest, p, "k_in"), p,
                           "free", "kmem_slab_cache", "f_pcc")
    /\ NestQuiet

\* drain_pcpu_caches: lock_pcu_cache of the next per-CPU cache.
NestDrainPcc(p) ==
    /\ NestAt(p, {"destroy"}, {"d_pcc"})
    /\ nest' = NestGoto(NestAcquire(nest, p, <<"pcc", NestTop(p).kc>>), p, "d_depot")
    /\ NestQuiet

\* drain_pcpu_caches and depot_destroy: lock_depot.
NestDestroyLockDepot(p) ==
    /\ NestAt(p, {"destroy"}, {"d_depot", "dd_lock"})
    /\ NestLockFree(<<"depot", NestTop(p).kc>>)
    /\ nest' = NestGoto(NestAcquire(nest, p, <<"depot", NestTop(p).kc>>), p,
                        IF NestTop(p).pc = "d_depot" THEN "d_in" ELSE "dd_ne")
    /\ NestQuiet

\* drain_pcpu_caches: both magazines are in the depot; unlock both; the
\* next per-CPU cache, or depot_destroy.
NestDrainReturn(p) ==
    /\ NestAt(p, {"destroy"}, {"d_in"})
    /\ LET kc == NestTop(p).kc
           N1 == NestRelease(NestRelease(nest, p, <<"depot", kc>>), p,
                             <<"pcc", kc>>)
       IN  \/ nest' = NestGoto(N1, p, "d_pcc")
           \/ nest' = NestGoto(N1, p, "dd_lock")
    /\ NestQuiet

\* depot_destroy under the depot lock, at the head of a loop: the not-empty
\* list has a magazine (drain_mag), or it is empty and so is the empty list
\* (unlock_depot), or the empty list has a magazine.
NestDepotDestroy(p) ==
    /\ NestAt(p, {"destroy"}, {"dd_ne"})
    /\ \/ nest' = NestGoto(nest, p, "dd_drain")
       \/ nest' = NestGoto(NestRelease(nest, p, <<"depot", NestTop(p).kc>>), p,
                           "k_lock")
       \/ nest' = NestGoto(nest, p, "dd_again")
    /\ NestQuiet

\* drain_mag: __kmem_free_to_slab of the next round, or no round is left
\* and the magazine is freed to kmem_magazine_cache.
NestDrainMag(p) ==
    /\ NestAt(p, {"destroy"}, {"dd_drain"})
    /\ \/ nest' = NestGoto(nest, p, "dd_rlock")
       \/ nest' = NestPush(NestGoto(nest, p, "dd_again"), p,
                           "free", "kmem_magazine_cache", "f_pcc")
    /\ NestQuiet

\* depot_destroy after a magazine was freed: the list's head is still that
\* magazine, it has no rounds, and it is freed again.
NestDepotAgain(p) ==
    /\ NestAt(p, {"destroy"}, {"dd_again"})
    /\ nest' = NestPush(nest, p, "free", "kmem_magazine_cache", "f_pcc")
    /\ NestQuiet

\* kmem_cache_destroy returns.
NestDestroyEnd(p) ==
    /\ NestAt(p, {"destroy"}, {"d_end"})
    /\ nest' = NestReturn(nest, p)
    /\ NestQuiet

\* The lock a CPU is about to take, where lock_depot or spin_lock_irqsave
\* is its next statement, and the CPUs that spin.
NestWantsDepot == {"a_depot", "f_depot", "f_ins", "d_depot", "dd_lock"}
NestWantsCache == {"s_lock", "sf_lock", "dd_rlock", "k_lock"}
NestWanted(p) ==
    IF NestTop(p).pc \in NestWantsDepot THEN <<"depot", NestTop(p).kc>>
    ELSE <<"cache", NestTop(p).kc>>
NestBlockedOn(p, q) ==
    /\ nest.stack[p] # <<>>
    /\ NestTop(p).pc \in NestWantsDepot \cup NestWantsCache
    /\ NestHolds(q, NestWanted(p))
RECURSIVE NestFollows(_, _, _)
NestFollows(p, q, n) ==
    /\ n > 0
    /\ \/ NestBlockedOn(p, q)
       \/ \E r \in NestCpus : NestBlockedOn(p, r) /\ NestFollows(r, q, n - 1)
NestBottom(p) == nest.stack[p][Len(nest.stack[p])]

NestStep(p) ==
    \/ NestAllocPcc(p) \/ NestAllocTry(p) \/ NestAllocLockDepot(p)
    \/ NestAllocInDepot(p) \/ NestSlabLock(p) \/ NestSlabIn(p)
    \/ NestGrowArena(p) \/ NestGrowBufctl(p) \/ NestGrowFail(p)
    \/ NestSlabCtor(p) \/ NestFreeSlabLock(p) \/ NestFreeSlabIn(p)
    \/ NestFreePcc(p) \/ NestFreeTry(p) \/ NestFreeLockDepot(p)
    \/ NestFreeInDepot(p) \/ NestFreeInserted(p)
    \/ NestReapLock(p) \/ NestReapIn(p) \/ NestSlabDestroy(p)
    \/ NestDrainPcc(p) \/ NestDestroyLockDepot(p) \/ NestDrainReturn(p)
    \/ NestDepotDestroy(p) \/ NestDrainMag(p) \/ NestDepotAgain(p)
    \/ NestDestroyEnd(p)

InitNest ==
    /\ InitCache
    /\ cfg = [use_bufctl |-> TRUE, ctor |-> FALSE, dtor |-> FALSE,
              num_total_obj |-> MaxTotal]
    /\ actors = {}
    /\ ops_left = 0
    /\ layout = LayoutOff
    /\ boot = BootOff
    /\ lk = LkIdle
    /\ hs = HashIdle
    /\ nest = NestIdle
    /\ mc = McIdle

NextNest ==
    \E p \in NestCpus :
       \/ \E fn \in {"alloc", "free", "reap", "destroy"} :
             \E kc \in UserCaches : NestCall(p, fn, kc)
       \/ NestStep(p)

SpecNest == InitNest /\ [][NextNest]_vars

\* ------------------------------------------------------ the magazine cache
McQuiet == UNCHANGED <<cacheVars, layout, boot, lk, hs, nest>>
McHalted(X) == X.assert_failed \/ X.bad_free \/ X.oom \/ X.hung

\* __swap_mags on the magazine cache's per-CPU cache c.
mc_swap_mags(X, c) ==
    [X EXCEPT !.pcc[c].prev = X.pcc[c].loaded, !.pcc[c].loaded = X.pcc[c].prev]

\* __return_to_depot(kmem_magazine_cache, mag).
mc_return_to_depot(X, m) ==
    IF X.mags[m].rounds = <<>>
    THEN [X EXCEPT !.mags[m].link = X.depot.empty, !.depot.empty = m,
                   !.depot.nr_empty = @ + 1]
    ELSE [X EXCEPT !.mags[m].link = X.depot.not_empty, !.depot.not_empty = m,
                   !.depot.nr_not_empty = @ + 1]

\* kmem_cache_alloc(kmem_magazine_cache) on CPU c, from try_alloc on.
\* Result: [x, ret]; ret = 0 when the slab layer has no object left.
RECURSIVE mc_try_alloc(_, _, _)
mc_try_alloc(X, c, fuel) ==
    LET loaded == X.pcc[c].loaded
        prev == X.pcc[c].prev
        first == X.depot.not_empty
    IN  IF X.mags[loaded].rounds # <<>>
        THEN [x |-> [X EXCEPT !.mags[loaded].rounds = SubSeq(@, 1, Len(@) - 1)],
              ret |-> X.mags[loaded].rounds[Len(X.mags[loaded].rounds)]]
        ELSE IF fuel = 0 THEN [x |-> [X EXCEPT !.hung = TRUE], ret |-> 0]
        ELSE IF X.mags[prev].rounds # <<>>
        THEN mc_try_alloc(mc_swap_mags(X, c), c, fuel - 1)
        ELSE IF first # 0
        THEN LET X1 == [X EXCEPT !.depot.not_empty = X.mags[first].link,
                                 !.depot.nr_not_empty = @ - 1]
                 X2 == mc_return_to_depot(X1, prev)
                 X3 == [X2 EXCEPT !.pcc[c].prev = loaded, !.pcc[c].loaded = first]
             IN  mc_try_alloc(X3, c, fuel - 1)
        ELSE IF X.free = {}
        THEN [x |-> [X EXCEPT !.oom = TRUE], ret |-> 0]
        ELSE LET m == SetMin(X.free)
             IN  [x |-> [X EXCEPT !.free = @ \ {m}, !.mags[m].rounds = <<>>],
                  ret |-> m]

\* kmem_cache_free(kmem_magazine_cache, buf) on CPU c, from try_free on.
RECURSIVE mc_try_free(_, _, _, _)
mc_try_free(X, c, buf, fuel) ==
    LET loaded == X.pcc[c].loaded
        prev == X.pcc[c].prev
        magsize == X.pcc[c].magsize
        first == X.depot.empty
    IN  IF Len(X.mags[loaded].rounds) < magsize
        THEN [X EXCEPT !.mags[loaded].rounds = Append(@, buf)]
        ELSE IF fuel = 0 THEN [X EXCEPT !.hung = TRUE]
        ELSE IF Len(X.mags[prev].rounds) < magsize
        THEN mc_try_free(mc_swap_mags(X, c), c, buf, fuel - 1)
        ELSE
        LET X0 == [X EXCEPT !.pcc[c].magsize = X.depot.magsize]
        IN  IF first # 0
            THEN LET X1 == [X0 EXCEPT !.depot.empty = X.mags[first].link,
                                      !.depot.nr_empty = @ - 1]
                     X2 == mc_return_to_depot(X1, prev)
                     X3 == [X2 EXCEPT !.pcc[c].prev = loaded,
                                      !.pcc[c].loaded = first]
                 IN  mc_try_free(X3, c, buf, fuel - 1)
            ELSE LET A == mc_try_alloc(X0, c, McFuel)
                 IN  IF A.ret = 0 THEN A.x
                     ELSE IF A.x.mags[A.ret].rounds # <<>>
                     THEN [A.x EXCEPT !.assert_failed = TRUE]
                     ELSE
                     LET X2 == [A.x EXCEPT !.mags[A.ret].link = A.x.depot.empty,
                                           !.depot.empty = A.ret,
                                           !.depot.nr_empty = @ + 1]
                     IN  mc_try_free(X2, c, buf, fuel - 1)

\* One turn of a loop of depot_destroy on the cache being destroyed, on
\* the CPU that destroys it: the head of the not-empty list is drained and freed to the
\* magazine cache, or, that list being empty, the head of the empty list
\* is freed.  Neither head is removed.  A round that is no object of the
\* cache goes to its slab layer all the same.
McDepotDestroy ==
    /\ ~McHalted(mc)
    /\ mc.frees < MaxMcFrees
    /\ LET mag_i == IF mc.kdepot.not_empty # 0 THEN mc.kdepot.not_empty
                    ELSE mc.kdepot.empty
           bad == \E i \in 1..Len(mc.mags[mag_i].rounds) :
                     mc.mags[mag_i].rounds[i] # McObj
           X1 == IF mc.kdepot.not_empty # 0
                 THEN [mc EXCEPT !.mags[mag_i].rounds = <<>>,
                                 !.bad_free = @ \/ bad]
                 ELSE mc
       IN  /\ mag_i # 0
           /\ mc' = [mc_try_free(X1, mc.destroyer, mag_i, McFuel)
                    EXCEPT !.frees = @ + 1]
    /\ McQuiet

\* A kmem_cache_free on another cache, on CPU c, that finds its magazines
\* full and no empty magazine in its depot: it allocates a magazine from the
\* magazine cache, checks that it has no rounds, puts it on its depot's
\* empty list, and at try_free loads it and pushes its object.
McOtherFree(c) ==
    /\ ~McHalted(mc)
    /\ c # mc.destroyer
    /\ mc.others < MaxMcOther
    /\ LET A == mc_try_alloc(mc, c, McFuel)
       IN  mc' = IF A.ret = 0 THEN [A.x EXCEPT !.others = @ + 1]
                 ELSE IF A.x.mags[A.ret].rounds # <<>>
                 THEN [A.x EXCEPT !.assert_failed = TRUE, !.others = @ + 1]
                 ELSE [A.x EXCEPT !.mags[A.ret].link = 0,
                                  !.mags[A.ret].rounds = <<McObj>>,
                                  !.others = @ + 1]
    /\ McQuiet

InitMagCache ==
    /\ InitCache
    /\ cfg = [use_bufctl |-> TRUE, ctor |-> FALSE, dtor |-> FALSE,
              num_total_obj |-> MaxTotal]
    /\ actors = {}
    /\ ops_left = 0
    /\ layout = LayoutOff
    /\ boot = BootOff
    /\ lk = LkIdle
    /\ hs = HashIdle
    /\ nest = NestIdle
    /\ \E has_rounds \in BOOLEAN :
         \E nr_empty \in 0..MaxMcDepot :
            \E destroyer \in 1..NCPU : mc = McStart(has_rounds, nr_empty, destroyer)

NextMagCache ==
    \/ McDepotDestroy
    \/ \E c \in 1..NCPU : McOtherFree(c)

SpecMagCache == InitMagCache /\ [][NextMagCache]_vars

\* -------------------------------------------------------- the bufctl hash
\* The entries of old list i after the lists before it, in the order the
\* loop of __try_hash_resize moves them: first of the list first.
RECURSIVE Rehash(_, _, _, _)
Rehash(new_tbl, old_tbl, i, bits) ==
    IF i > Len(old_tbl) THEN new_tbl
    ELSE IF old_tbl[i] = <<>> THEN Rehash(new_tbl, old_tbl, i + 1, bits)
    ELSE LET bc_i == Head(old_tbl[i])
             hash_idx == hash_ptr(bc_i, bits)
         IN  Rehash([new_tbl EXCEPT ![hash_idx + 1] = Cons(bc_i, @)],
                    [old_tbl EXCEPT ![i] = Tail(@)], i, bits)

\* __try_hash_resize that hashes into the new table with the old number of
\* bits.
__try_hash_resize_old_bits(H, zalloc_ok) ==
    IF ~hash_needs_more(H.hh) THEN H
    ELSE IF ~zalloc_ok THEN H
    ELSE
    LET new_tbl_nr_lists == hash_next_nr_lists(H.hh)
        new_tbl == [i \in 1..new_tbl_nr_lists |-> <<>>]
        old_tbl == H.alloc_hash
        hh1 == hash_incr_nr_lists(H.hh)
        H1 == [H EXCEPT !.alloc_hash = Rehash(new_tbl, old_tbl, 1,
                                              H.hh.nr_hash_bits),
                        !.hh = hash_reset_load_limit(hh1),
                        !.is_static = FALSE,
                        !.base_tables = @ + 1]
    IN  IF ~H.is_static
        THEN [H1 EXCEPT !.base_tables = @ - 1]
        ELSE H1

\* __try_hash_resize(cp) on the hash H; zalloc_ok is whether base_zalloc
\* returns a table.
__try_hash_resize(H, zalloc_ok) ==
    IF ~hash_needs_more(H.hh) THEN H
    ELSE IF ~zalloc_ok THEN H
    ELSE
    LET new_tbl_nr_lists == hash_next_nr_lists(H.hh)
        new_tbl == [i \in 1..new_tbl_nr_lists |-> <<>>]
        old_tbl == H.alloc_hash
        hh1 == hash_incr_nr_lists(H.hh)
        H1 == [H EXCEPT !.alloc_hash = Rehash(new_tbl, old_tbl, 1,
                                              hh1.nr_hash_bits),
                        !.hh = hash_reset_load_limit(hh1),
                        !.is_static = FALSE,
                        !.base_tables = @ + 1]
    IN  IF ~H.is_static
        THEN [H1 EXCEPT !.base_tables = @ - 1]
        ELSE H1

\* __track_alloc(cp, bc) on the hash H.
__track_alloc(H, bc, zalloc_ok) ==
    LET hash_idx == hash_ptr(bc, H.hh.nr_hash_bits)
        H1 == [H EXCEPT !.alloc_hash[hash_idx + 1] = Cons(bc, @),
                        !.hh.nr_items = @ + 1]
    IN  __try_hash_resize(H1, zalloc_ok)

\* __yank_bufctl(cp, buf) on the hash H, for a buf that has an entry: the
\* first entry of its list with that address is removed.
__yank_bufctl(H, buf) ==
    LET hash_idx == hash_ptr(buf, H.hh.nr_hash_bits)
    IN  [H EXCEPT !.alloc_hash[hash_idx + 1] = Remove(@, buf)]

\* __kmem_alloc_from_slab in bufctl mode, as the hash sees it: the bufctl of
\* a free buffer leaves the freelist and is tracked.
HashTrack(a) ==
    /\ a \notin hs.busy
    /\ hs.hh.nr_items < MaxTracks
    /\ \E zalloc_ok \in BOOLEAN :
         hs' = [__track_alloc(hs, a, zalloc_ok) EXCEPT !.busy = @ \cup {a}]
    /\ UNCHANGED <<cacheVars, layout, boot, lk, nest, mc>>

\* __kmem_free_to_slab in bufctl mode, as the hash sees it: the bufctl of an
\* allocated buffer is yanked and goes back to the freelist.
HashYank(a) ==
    /\ a \in hs.busy
    /\ hs' = [__yank_bufctl(hs, a) EXCEPT !.busy = @ \ {a}]
    /\ UNCHANGED <<cacheVars, layout, boot, lk, nest, mc>>

InitHash ==
    /\ InitCache
    /\ cfg = [use_bufctl |-> TRUE, ctor |-> FALSE, dtor |-> FALSE,
              num_total_obj |-> MaxTotal]
    /\ actors = {}
    /\ ops_left = 0
    /\ layout = LayoutOff
    /\ boot = BootOff
    /\ lk = LkIdle
    /\ hs = HashIdle
    /\ nest = NestIdle
    /\ mc = McIdle

NextHash == \E a \in HashAddrs : HashTrack(a) \/ HashYank(a)

SpecHash == InitHash /\ [][NextHash]_vars

\* ------------------------------------------------- frees of a wrong address
\* A caller frees an address it does not hold: one it never got, one it has
\* freed already, or one of a slab that does not exist.  kmem_cache_free
\* does not look at the address; it goes into a magazine like any other.
\* The wrong addresses are those of the first slab and of the last.
BadAddrs == {x \in Slots : x[1] \in {1, MaxSlots}}
BadFreeCall(p, buf) ==
    /\ CanStart(p)
    /\ Begin
    /\ held[buf] = 0
    /\ try_free(p, buf, "")
    /\ UNCHANGED <<layout, boot, lk, hs, nest, mc, cfg, actors, slabVars, held, constructed, halted>>

\* One thread in bufctl mode, MaxBadOps calls in all, whose frees can be wrong.
InitBadFree ==
    /\ InitCache
    /\ cfg.use_bufctl
    /\ actors = {1}
    /\ ops_left = MaxBadOps
    /\ layout = LayoutOff
    /\ boot = BootOff
    /\ lk = LkIdle /\ hs = HashIdle
    /\ nest = NestIdle
    /\ mc = McIdle

NextBadFree ==
    \/ \E flags \in AllocFlags : AllocCall(1, flags)
    \/ \E buf \in Slots : FreeCall(1, buf)
    \/ \E buf \in BadAddrs : BadFreeCall(1, buf)
    \/ DestroyCall(1)
    \/ Step(1)

SpecBadFree == InitBadFree /\ [][NextBadFree]_vars

\* The thread that runs kmem_cache_destroy keeps running: depot_destroy spins
\* on its CPU, holding the depot lock with interrupts off.
FairSpec == Spec /\ WF_vars(Step(1))

\* ---------------------------------------------------------------- properties
\* Where a slot is: how often it is on its slab's freelist, in the rounds of
\* the magazines, and in the frame of an operation that has it in hand.
SlabExists(s) == cp.slab[s].state # "none"
NrOnFreelist(x) ==
    IF SlabExists(x[1])
    THEN Cardinality({i \in DOMAIN cp.slab[x[1]].freelist :
                        cp.slab[x[1]].freelist[i] = x[2]})
    ELSE 0
NrInMags(x) ==
    Cardinality({mi \in MagIds \X (1..KMC_MAG_MAX_SZ) :
                   /\ mag[mi[1]].state = "live"
                   /\ mi[2] <= Len(mag[mi[1]].rounds)
                   /\ mag[mi[1]].rounds[mi[2]] = x})
InHand == {"a_ctorfail", "f_try", "f_wait", "f_depot", "f_magalloc",
           "f_addwait", "f_add"}
NrInHand(x) == Cardinality({p \in Ctxs : ctx[p].pc \in InHand /\ ctx[p].buf = x})
\* The slots that are out of the slab layer.
OutSlots == {x \in Slots : held[x] > 0 \/ NrInMags(x) > 0}
InProgress(p) == ctx[p].pc # "idle"

\* C1: under concurrent kmem_cache_alloc and kmem_cache_free from several
\* CPUs and from an interrupt handler, every slot of every slab is in exactly
\* one place (one freelist entry, one magazine round, one holder, or the
\* frame of the one operation moving it), and slots of no slab are nowhere.
C1_SlotInOnePlace ==
    \A x \in Slots :
        NrOnFreelist(x) + NrInMags(x) + held[x] + NrInHand(x)
            = IF SlabExists(x[1]) /\ x[2] <= num_total_obj THEN 1 ELSE 0
\* An allocation returned while another context was in mid-operation, with
\* another address held.
C1_Overlap ==
    /\ ev.op = "alloc"
    /\ ev.val # NULL
    /\ \E q \in Ctxs \ {ev.ctx} : InProgress(q)
    /\ \E y \in Slots \ {ev.val} : held[y] > 0

\* C2: once kmem_cache_destroy is in depot_destroy, the depot's lists
\* eventually are both empty (the exit condition of its two loops), every
\* turn of a loop taking the magazine it handled off the lists, so that each
\* magazine is handled once.
C2_DestroyCompletes ==
    /\ Destroying ~> (depot.not_empty = <<>> /\ depot.empty = <<>>)
    /\ [][\A p \in Ctxs :
            (ctx[p].pc = "d_depot" /\ mag' # mag) =>
                Len(depot'.not_empty) + Len(depot'.empty)
                    < Len(depot.not_empty) + Len(depot.empty)
         ]_vars

\* C3: in kmem_cache_destroy with no address held and every magazine
\* drained, the full and the partial slab list are empty.
C3_DrainedListsEmpty ==
    (/\ Destroying
     /\ \A x \in Slots : held[x] = 0
     /\ \A m \in MagIds : mag[m].rounds = <<>>)
    => (cp.full_slab_list = <<>> /\ cp.partial_slab_list = <<>>)

\* C4: a kmem_cache_reap that returns gave back the region of every slab
\* that was on the empty list, released those slabs' records and bufctls in
\* bufctl mode, and left the partial and full lists and their slabs as they
\* were.
C4_ReapEffect ==
    [][ev'.op = "reap" =>
        /\ cp'.partial_slab_list = cp.partial_slab_list
        /\ cp'.full_slab_list = cp.full_slab_list
        /\ \A s \in Range(cp.partial_slab_list) \cup Range(cp.full_slab_list) :
             cp'.slab[s] = cp.slab[s]
        /\ \A s \in Range(cp.empty_slab_list) :
             /\ s \notin arena'.out
             /\ __use_bufctls =>
                  /\ s \notin aux'.slabrecs
                  /\ aux'.bufctls \cap SlotsOf(s) = {}
      ]_vars
\* A reap just gave back a slab's region while another slab stays in use.
C4_Reaped ==
    /\ ev.op = "reap"
    /\ \E s \in Range(cp.empty_slab_list) :
         cp.slab[s].state = "destroyed" /\ s \notin arena.out
    /\ cp.full_slab_list # <<>> \/ cp.partial_slab_list # <<>>
    /\ ~arena.bad_free

\* C5: every arena_free the cache made passed the base of a region that was
\* handed out and not yet returned.
C5_ArenaFreeOutstanding == ~arena.bad_free

\* C6: with one thread on one CPU, a kmem_cache_alloc that directly follows
\* kmem_cache_free(x) returns x.
C6_Lifo == (ev.op = "alloc" /\ ev.expect # NULL) => ev.val = ev.expect
\* The free had to get a magazine into the depot first, and the alloc after
\* it returned.
C6_AfterDepotFree ==
    /\ ev.op = "alloc"
    /\ ev.expect # NULL
    /\ ev.after = "newmag"
    /\ ev.val # NULL

\* C7: in a cache with ctor and dtor, a slot held or in a magazine has one
\* more successful ctor call than dtor calls and a slot on a freelist has as
\* many; the balance goes down exactly in the steps that move a slot from a
\* magazine to a freelist, and up only for the slot an alloc returns from the
\* slab layer.
C7_Constructed ==
    /\ [](cfg.ctor =>
            \A x \in Slots :
                /\ (held[x] > 0 \/ NrInMags(x) > 0) => constructed[x] = 1
                /\ NrOnFreelist(x) > 0 => constructed[x] = 0)
    /\ [][cfg.ctor =>
            \A x \in Slots :
                /\ (constructed'[x] < constructed[x])
                      <=> (NrInMags(x) > 0 /\ NrOnFreelist(x)' > 0)
                /\ (constructed'[x] > constructed[x])
                      => (ev'.op = "alloc" /\ ev'.why = "slab" /\ ev'.val = x)
       ]_vars
\* The destroy path drained a magazine that held constructed objects.
C7_Drained ==
    /\ cfg.dtor
    /\ Destroying
    /\ \E x \in Slots : NrOnFreelist(x) > 0 /\ held[x] = 0
    /\ depot.not_empty # <<>>
    /\ mag[Head(depot.not_empty)].nr_frees = 1
    /\ cp.nr_cur_alloc = 0

\* C8: when kmem_cache_alloc returns after a failed ctor it returns NULL, and
\* nr_cur_alloc and every slab's num_busy_obj count exactly the slots that
\* are out (held or in a magazine), every other slot being on its freelist.
C8_CtorFailure ==
    (ev.op = "alloc" /\ ev.why = "ctor_failed") =>
        /\ ev.val = NULL
        /\ cp.nr_cur_alloc = Cardinality(OutSlots)
        /\ \A s \in SlabIds : SlabExists(s) =>
             /\ cp.slab[s].num_busy_obj = Cardinality(OutSlots \cap SlotsOf(s))
             /\ \A x \in SlotsOf(s) \ OutSlots : NrOnFreelist(x) = 1
\* A ctor failure after other allocations succeeded.
C8_FailedAfterSuccess ==
    /\ ev.op = "alloc"
    /\ ev.why = "ctor_failed"
    /\ cp.nr_cur_alloc > 0
    /\ \E x \in Slots : held[x] > 0

\* C9: a kmem_cache_alloc with MEM_ATOMIC whose grow found the arena out of
\* memory returns NULL to its caller, and the kernel runs on.
C9_AtomicReturnsFailure ==
    (/\ ev.op = "alloc"
     /\ MEM_ATOMIC \in ev.flags
     /\ ev.why \in {"error_ENOMEM", "panic_OOM"})
    => (halted = "run" /\ ev.why # "panic_OOM")

C11_FreeFallsThrough ==
    (ev.op = "free" /\ ev.why = "panic_OOM") =>
        /\ halted = "run"
        /\ NrOnFreelist(ev.val) = 1
        /\ cfg.dtor => constructed[ev.val] = 0

\* The rounds the magazines hold, over all magazines.
NrRounds ==
    Cardinality({mi \in MagIds \X (1..KMC_MAG_MAX_SZ) :
                   mag[mi[1]].state = "live" /\ mi[2] <= Len(mag[mi[1]].rounds)})
AllIdle == \A p \in Ctxs : ctx[p].pc = "idle"
Balanced == AllIdle /\ \A x \in Slots : held[x] = 0

\* C12 as stated: after a balanced sequence of kmem_cache_alloc and
\* kmem_cache_free calls, nr_cur_alloc is zero.
C12_BalancedZero == Balanced => cp.nr_cur_alloc = 0
\* C12 as amended: after a balanced sequence, nr_cur_alloc is the number of
\* freed objects the magazines hold; it is zero when they hold none.
C12_BalancedCountsMagazines == Balanced => cp.nr_cur_alloc = NrRounds
\* Two objects were allocated and freed, and both stay in magazines.
C12_FreedIntoMagazines ==
    /\ Balanced
    /\ ev.op = "free"
    /\ NrRounds = 2
    /\ cp.nr_cur_alloc = 2

C14_MagazineBounds ==
    /\ [](/\ \A m \in MagIds : Len(mag[m].rounds) <= KMC_MAG_MAX_SZ
          /\ \A c \in CPUs : pcc[c].magsize <= depot.magsize)
    /\ [][\A c \in CPUs : pcc'[c].magsize >= pcc[c].magsize]_vars
\* After a resize one CPU fills a magazine to the new target while a magazine
\* filled under the old target is still around and the other CPU still has
\* the old target.
C14_OldAndNewTarget ==
    /\ \E c \in CPUs : pcc[c].magsize > KMC_MAG_MIN_SZ
    /\ \E c \in CPUs : pcc[c].magsize < depot.magsize
    /\ \E m \in MagIds : Len(mag[m].rounds) > KMC_MAG_MIN_SZ
    /\ \E m \in MagIds : Len(mag[m].rounds) = KMC_MAG_MIN_SZ

\* The slabs the cache has: grown and not destroyed.
LiveSlabs == {s \in SlabIds : cp.slab[s].state = "live"}
\* How often slab s is linked on a slab list.
NrOnList(list, s) == Cardinality({i \in DOMAIN list : list[i] = s})

C16_ListMatchesBusy ==
    cache_lock = 0 =>
        \A s \in LiveSlabs :
            LET busy == cp.slab[s].num_busy_obj
            IN  /\ NrOnList(cp.empty_slab_list, s) = (IF busy = 0 THEN 1 ELSE 0)
                /\ NrOnList(cp.full_slab_list, s)
                      = (IF busy = num_total_obj THEN 1 ELSE 0)
                /\ NrOnList(cp.partial_slab_list, s)
                      = (IF 0 < busy /\ busy < num_total_obj THEN 1 ELSE 0)

\* C17 as stated: in bufctl mode, with no operation in progress, the hash
\* holds exactly the addresses callers hold.
C17_HashIsHeld ==
    (__use_bufctls /\ AllIdle) => cp.alloc_hash = {x \in Slots : held[x] > 0}
\* C17 as amended: in bufctl mode, with no operation in progress, the hash
\* holds exactly the addresses that callers hold or that are rounds of a
\* magazine.
C17_HashIsOut == (__use_bufctls /\ AllIdle) => cp.alloc_hash = OutSlots
\* One address is held and another, freed, is in a magazine; both are in the
\* hash.
C17_HeldAndCached ==
    /\ __use_bufctls
    /\ AllIdle
    /\ \E x \in cp.alloc_hash : held[x] > 0
    /\ \E x \in cp.alloc_hash : NrInMags(x) > 0
    /\ ev.op = "free"

SomeHeld == \E x \in Slots : held[x] > 0

\* C18: kmem_cache_destroy called while a caller still holds an object gets
\* through depot_destroy to its assertions on the full and partial slab lists
\* and stops there: the depot's lists are emptied (the exit of depot_destroy's
\* loops, after which the assertions are next), the kernel does not stop
\* earlier for another reason, no magazine is freed twice on the way, and the
\* region of every slab on the partial or full list stays with the cache.
C18_DestroyWithLiveObject ==
    /\ (Destroying /\ SomeHeld)
          ~> (depot.not_empty = <<>> /\ depot.empty = <<>>)
    /\ []((Destroying /\ SomeHeld) =>
            /\ halted = "run"
            /\ \A m \in MagIds : mag[m].nr_frees <= 1
            /\ \A s \in Range(cp.partial_slab_list) \cup Range(cp.full_slab_list) :
                 cp.slab[s].state = "live" => s \in arena.out)

\* C20: in the embedded layout with a page-aligned source, every address
\* handed out is a_page + i * obj_size with 0 <= i < num_total_obj and a
\* multiple of the cache's alignment; the slots handed out are pairwise
\* disjoint and none reaches into the slab record at the tail of the page.
C20_EmbeddedAddresses ==
    \A a \in layout.out :
        /\ \E i \in 0..(layout.num_total_obj - 1) :
             a = layout.a_page + i * layout.kc_obj_size
        /\ a % layout.align = 0
        /\ a + layout.kc_obj_size <= layout.a_slab
        /\ \A b \in layout.out \ {a} :
             a + layout.kc_obj_size <= b \/ b + layout.kc_obj_size <= a

MagazinesOf(c) ==
    {boot.pcpu[c][i].loaded : i \in CPUs} \cup {boot.pcpu[c][i].prev : i \in CPUs}

\* C19: kmem_cache_init creates the magazine cache, the cache of caches, the
\* slab-record cache and the bufctl cache, in that order; every magazine of a
\* per-CPU cache built on the way comes straight from the magazine cache's
\* slab layer; and whenever such an allocation runs, the magazine cache's
\* lock, object size, flags, source and slab lists (all that the slab layer
\* reads) have been initialised.
C19_Bootstrap ==
    /\ \A k \in DOMAIN boot.order :
         boot.order[k] = <<"kmem_magazine_cache", "kmem_cache_cache",
                           "kmem_slab_cache", "kmem_bufctl_cache">>[k]
    /\ boot.paths \subseteq {"slab"}
    /\ boot.bad_reads = {}
    /\ boot.pc = "pcpu" =>
         {"cache_lock", "obj_size", "flags", "source", "full_slab_list",
          "partial_slab_list", "empty_slab_list"}
             \subseteq boot.fields["kmem_magazine_cache"]
    /\ boot.mc.nr_cur_alloc
         = Cardinality(UNION {MagazinesOf(c) : c \in Range(ReservedCaches)} \ {NULL})
\* kmem_cache_init is through: all four caches have two magazines per CPU.
C19_Booted ==
    /\ boot.pc = "done"
    /\ Len(boot.order) = 4
    /\ \A c \in Range(ReservedCaches) : NULL \notin MagazinesOf(c)
    /\ boot.mc.nr_cur_alloc = 8 * NCPU
    /\ halted = "run"

\* C21: no slab whose record kmem_slab_destroy has released (its region
\* returned to the source arena by kmem_cache_reap) is linked on the empty,
\* the partial or the full list, so that no later alloc, reap or destroy
\* reads it.
C21_ReapedUnreachable ==
    \A s \in Range(cp.empty_slab_list) \cup Range(cp.partial_slab_list)
               \cup Range(cp.full_slab_list) :
        cp.slab[s].state # "destroyed"

\* C22: every slab kmem_cache_grow produces for a cache whose alignment
\* passed __kmem_cache_create's check has at least one slot, so that the
\* allocation that made it grow finds a slot on its freelist.
C22_GrownSlabHasSlot ==
    layout.pc = "alloc" =>
        /\ layout.num_total_obj >= 1
        /\ layout.num_busy_obj + Len(layout.free_small_obj) = layout.num_total_obj

\* C23: depot_destroy handles each magazine once: no magazine is freed to
\* the magazine cache twice, a magazine that was freed is on neither depot
\* list, it holds no rounds, and no object has its destructor run more often
\* than its constructor.
C23_DrainedOnce ==
    /\ \A m \in MagIds :
         /\ mag[m].nr_frees <= 1
         /\ mag[m].state = "freed" =>
              /\ m \notin Range(depot.not_empty) \cup Range(depot.empty)
              /\ mag[m].rounds = <<>>
    /\ \A x \in Slots : constructed[x] >= 0

\* Positions at which a context holds its CPU's per-CPU lock (interrupts off
\* since lock_pcu_cache).
PccLocked(p) ==
    ctx[p].pc \in {"a_wait", "a_depot", "a_try", "f_wait", "f_depot", "f_try",
                   "d_pcc", "d_drain"}
\* A magazine an operation got from the magazine cache and has not yet put
\* on the depot's empty list.
InFlight(p, m) == ctx[p].pc \in {"f_addwait", "f_add"} /\ ctx[p].mag = m
\* How many holders reference magazine m.
NrHolders(m) ==
    Cardinality({c \in CPUs : pcc[c].loaded = m})
    + Cardinality({c \in CPUs : pcc[c].prev = m})
    + NrOnList(depot.not_empty, m)
    + NrOnList(depot.empty, m)
    + Cardinality({p \in Ctxs : InFlight(p, m)})

C25_AllocHierarchy ==
    [][\A p \in Ctxs :
        LET c == core_id(p)
            l == pcc[c].loaded
            v == pcc[c].prev
        IN  /\ (ev'.op = "alloc" /\ ev'.why = "mag" /\ ev'.ctx = p) =>
                  IF mag[l].rounds # <<>>
                  THEN /\ ev'.val = mag[l].rounds[Len(mag[l].rounds)]
                       /\ Len(mag'[l].rounds) = Len(mag[l].rounds) - 1
                       /\ pcc' = pcc
                  ELSE /\ mag[v].rounds # <<>>
                       /\ ev'.val = mag[v].rounds[Len(mag[v].rounds)]
                       /\ Len(mag'[v].rounds) = Len(mag[v].rounds) - 1
                       /\ pcc'[c].loaded = v /\ pcc'[c].prev = l
            /\ (ctx[p].pc \in {"idle", "a_try"}
                   /\ ctx'[p].pc \in {"a_depot", "a_wait"}) =>
                  mag[l].rounds = <<>> /\ mag[v].rounds = <<>>
            /\ (ctx[p].pc # "a_slab" /\ ctx'[p].pc = "a_slab") =>
                  /\ ctx[p].pc = "a_depot"
                  /\ depot.lock = p /\ depot'.lock = 0
                  /\ mag[l].rounds = <<>> /\ mag[v].rounds = <<>>
                  /\ depot.not_empty = <<>>
                  /\ pcc' = pcc
            /\ (ctx[p].pc = "a_depot" /\ ctx'[p].pc = "a_try") =>
                  /\ depot.lock = p /\ depot'.lock = 0
                  /\ mag[v].rounds = <<>>
                  /\ depot'.empty = <<v>> \o depot.empty
                  /\ depot'.nr_empty = depot.nr_empty + 1
                  /\ depot'.not_empty = Tail(depot.not_empty)
                  /\ depot'.nr_not_empty = depot.nr_not_empty - 1
                  /\ pcc'[c].loaded = Head(depot.not_empty)
                  /\ pcc'[c].prev = l
                  /\ mag' = mag
      ]_vars
\* An alloc popped a round after an exchange at the depot had put one of
\* the CPUs' first magazines, empty, on the empty list.
C25_PoppedAfterExchange ==
    /\ ev.op = "alloc"
    /\ ev.why = "mag"
    /\ depot.empty # <<>>
    /\ Head(depot.empty) <= 2 * NCPU

\* C26: kmem_cache_free goes for the depot only when loaded and prev both
\* hold at least magsize rounds, and its visit there sets the per-CPU
\* cache's magsize to the depot's magsize of that moment whether or not the
\* empty list has a magazine; when it has one, prev goes to the head of the
\* not-empty list, the old loaded becomes prev and the taken magazine
\* loaded; when it has none, slots and lists stay as they were.
C26_FreeAtDepot ==
    [][\A p \in Ctxs :
        LET c == core_id(p)
            l == pcc[c].loaded
            v == pcc[c].prev
        IN  /\ (ctx[p].pc \in {"idle", "f_try"}
                   /\ ctx'[p].pc \in {"f_depot", "f_wait"}) =>
                  /\ Len(mag[l].rounds) >= pcc[c].magsize
                  /\ Len(mag[v].rounds) >= pcc[c].magsize
            /\ (ctx[p].pc = "f_depot" /\ ctx'[p].pc # "f_depot") =>
                  /\ depot.lock = p /\ depot'.lock = 0
                  /\ pcc'[c].magsize = depot.magsize
                  /\ depot'.magsize = depot.magsize
                  /\ IF depot.empty # <<>>
                     THEN /\ depot'.empty = Tail(depot.empty)
                          /\ depot'.nr_empty = depot.nr_empty - 1
                          /\ depot'.not_empty = <<v>> \o depot.not_empty
                          /\ depot'.nr_not_empty = depot.nr_not_empty + 1
                          /\ pcc'[c].prev = l
                          /\ pcc'[c].loaded = Head(depot.empty)
                          /\ ctx'[p].pc = "f_try"
                     ELSE /\ depot'.empty = depot.empty
                          /\ depot'.not_empty = depot.not_empty
                          /\ pcc'[c].prev = v
                          /\ pcc'[c].loaded = l
                          /\ ctx'[p].pc = "f_magalloc"
      ]_vars
\* After the depot's magsize had grown, a free found no empty magazine at
\* the depot and left with the new magsize all the same.
C26_RefreshedWithoutMagazine ==
    \E p \in CPUs :
        /\ ctx[p].pc = "f_magalloc"
        /\ pcc[p].magsize > KMC_MAG_MIN_SZ
        /\ pcc[p].magsize = depot.magsize

\* Positions at which a context has sampled the time and waits for the
\* depot lock.
WaitsForDepot(p) == ctx[p].pc \in {"a_wait", "f_wait", "f_addwait"}

\* C29: a step in which a context obtains the depot lock leaves busy_count,
\* busy_start and the depot's magsize as they were when the try-lock
\* succeeded, and also when the lock was contended but the depot has no
\* not-empty magazine at the moment the lock is obtained.
C29_NoAccounting ==
    [][\A p \in Ctxs :
        (/\ depot.lock # p /\ depot'.lock = p
         /\ ~WaitsForDepot(p) \/ depot.nr_not_empty = 0) =>
            /\ depot'.busy_count = depot.busy_count
            /\ depot'.busy_start = depot.busy_start
            /\ depot'.magsize = depot.magsize
      ]_vars
\* A contended acquisition found no not-empty magazine and left a count of
\* earlier contended acquisitions standing.
C29_SkippedWithCount ==
    /\ ev.op = "lock_depot"
    /\ ev.why = "skipped"
    /\ depot.nr_not_empty = 0
    /\ depot.busy_count > 0

\* C27: when resize_threshold + 1 contended acquisitions have found a
\* not-empty magazine and the times they sampled lie within
\* resize_timeout_ns of one another, the depot's magsize is one above what it
\* was before the first of them (or at KMC_MAG_MAX_SZ), in whatever order
\* they obtained the lock; and a step that raises magsize leaves busy_count
\* at zero.
C27_BurstResizes ==
    /\ []((/\ Len(lk.burst) = resize_threshold + 1
            /\ \A i, j \in DOMAIN lk.burst :
                 lk.burst[i] - lk.burst[j] <= resize_timeout_ns)
           => lk.depot.magsize = MIN(KMC_MAG_MAX_SZ, lk.magsize0 + 1))
    /\ [][lk'.depot.magsize > lk.depot.magsize => lk'.depot.busy_count = 0]_vars

\* C28: a contended acquisition that finds a not-empty magazine starts a new
\* window (busy_start becomes its sampled time, the count starts again)
\* exactly when its sampled time is later than busy_start +
\* resize_timeout_ns; otherwise busy_start stays and the count goes on.  A
\* sample earlier than busy_start never moves busy_start backwards.
C28_WindowReset ==
    [][\A p \in LockCpus :
        (/\ lk.cpu[p].pc = "spin" /\ lk'.cpu[p].pc = "in"
         /\ lk.depot.nr_not_empty # 0) =>
            LET time == lk.cpu[p].time
                D == lk.depot
                count == IF time > D.busy_start + resize_timeout_ns
                         THEN 1 ELSE D.busy_count + 1
            IN  /\ lk'.depot.busy_start
                     = IF time > D.busy_start + resize_timeout_ns
                       THEN time ELSE D.busy_start
                /\ lk'.depot.busy_start >= D.busy_start
                /\ lk'.depot.busy_count
                     = IF count > resize_threshold THEN 0 ELSE count
      ]_vars

\* C30: a context that comes to hold the depot lock together with its
\* per-CPU lock held the per-CPU lock before (or took both within the call
\* it has just begun), and a context that holds the depot lock without the
\* per-CPU lock has released the depot lock when it next holds the per-CPU
\* lock: in alloc, free, drain and destroy the per-CPU lock is never taken
\* under the depot lock.
C30_LockOrder ==
    [][\A p \in Ctxs :
        /\ (depot.lock # p /\ depot'.lock = p /\ PccLocked(p)') =>
              (PccLocked(p) \/ ctx[p].pc = "idle")
        /\ (depot.lock = p /\ ~PccLocked(p) /\ PccLocked(p)') =>
              depot'.lock # p
      ]_vars
\* A free has put a new magazine on the depot's empty list, released the
\* depot lock and retaken the per-CPU lock.
C30_RetakenAfterAdd ==
    \E p \in Ctxs :
        /\ ctx[p].pc = "f_try" /\ depot.lock = 0
        /\ depot.empty # <<>> /\ Head(depot.empty) = ctx[p].mag
        /\ ctx[p].mag > 2 * NCPU


\* C34: a step of __kmem_alloc_from_slab that hands out a slot takes it from
\* a slab of the partial list when that list is not empty, otherwise from a
\* slab of the empty list when that list is not empty, and imports from the
\* arena only when both lists are empty; an import takes one region and
\* kmem_cache_grow puts one slab, with no busy object and a whole freelist,
\* on the empty list.  A step that takes nothing from the arena adds no slab.
C34_SlabChoice ==
    [][\A p \in Ctxs :
        (ctx[p].pc = "a_slab" /\ cp'.nr_cur_alloc = cp.nr_cur_alloc + 1) =>
          \E s \in SlabIds :
            /\ cp'.slab[s].num_busy_obj = cp.slab[s].num_busy_obj + 1
            /\ \A t \in SlabIds \ {s} : cp'.slab[t] = cp.slab[t]
            /\ IF cp.partial_slab_list # <<>>
               THEN /\ s \in Range(cp.partial_slab_list)
                    /\ arena' = arena
                    /\ cp'.empty_slab_list = cp.empty_slab_list
                    /\ cp'.slab[s].state = cp.slab[s].state
               ELSE IF cp.empty_slab_list # <<>>
               THEN /\ s \in Range(cp.empty_slab_list)
                    /\ arena' = arena
                    /\ cp'.slab[s].state = cp.slab[s].state
               ELSE LET G == kmem_cache_grow(W, TRUE)
                    IN  /\ cp.slab[s].state = "none"
                        /\ arena'.nr_allocs = arena.nr_allocs + 1
                        /\ arena'.out = arena.out \cup {s}
                        /\ arena' = G.w.arena
                        /\ G.ok
                        /\ G.w.cp.empty_slab_list = <<s>>
                        /\ G.w.cp.slab[s].num_busy_obj = 0
                        /\ Len(G.w.cp.slab[s].freelist) = num_total_obj
                        /\ \A t \in SlabIds \ {s} : G.w.cp.slab[t] = cp.slab[t]
      ]_vars
\* An allocation has imported a second region while the first slab was full
\* and no slab was partial or empty.
C34_SecondImport ==
    /\ ev.op = "alloc" /\ ev.why = "slab"
    /\ arena.nr_allocs = 2
    /\ cp.full_slab_list # <<>> /\ cp.partial_slab_list # <<>>
    /\ cp.empty_slab_list = <<>>

\* C35: whenever the cache lock is free, in bufctl mode the hash holds
\* exactly the slots that are out of the slab layer (held by a caller, a
\* round of a magazine, or in the hands of the operation moving them), every
\* slot of a slab is on its slab's freelist once or in the hash, never both,
\* and the hash holds nothing else; in embedded mode the hash is empty.
C35_HashIsBusy ==
    cache_lock = 0 =>
        IF __use_bufctls
        THEN /\ \A x \in Slots :
                  (SlabExists(x[1]) /\ x[2] <= num_total_obj) =>
                      /\ NrOnFreelist(x) + (IF x \in cp.alloc_hash THEN 1 ELSE 0) = 1
                      /\ x \in cp.alloc_hash <=>
                            held[x] + NrInMags(x) + NrInHand(x) > 0
             /\ \A x \in cp.alloc_hash :
                  SlabExists(x[1]) /\ x[2] <= num_total_obj
        ELSE cp.alloc_hash = {}
\* In bufctl mode a failed constructor has sent its slot back to the slab
\* layer, which took it out of the hash, while other slots stay tracked.
C35_YankedOneOfSeveral ==
    /\ __use_bufctls
    /\ ev.op = "alloc" /\ ev.why = "ctor_failed"
    /\ \E x \in cp.alloc_hash : held[x] > 0
    /\ \E x \in Slots : SlabExists(x[1]) /\ NrOnFreelist(x) = 1

\* The first of the rounds r[i], r[i+1], ... for which __yank_bufctl finds no
\* entry when the rounds are given to the slab layer in order, starting with
\* the entries of hash; 0 if every round is found.
RECURSIVE FirstUnknown(_, _, _)
FirstUnknown(hash, r, i) ==
    IF i > Len(r) THEN 0
    ELSE IF r[i] \notin hash THEN i
    ELSE FirstUnknown(hash \ {r[i]}, r, i + 1)

\* C37: in bufctl mode, when the drain of a magazine gives the slab layer an
\* address with no entry in the hash, the kernel panics and that free has
\* changed nothing: the slab state is what the frees of the rounds before it
\* left (the counter is down by their number, the slabs of none of them are
\* as they were, the lists hold what they held), with the panic on top.
C37_UnknownAddressPanics ==
    [][\A p \in Ctxs :
        (/\ ctx[p].pc = "d_depot" /\ __use_bufctls /\ depot.not_empty # <<>>
         /\ ~cp.panic /\ halted' # "fault" /\ mag' # mag) =>
            LET r == mag[Head(depot.not_empty)].rounds
                k == FirstUnknown(cp.alloc_hash, r, 1)
                before == {r[j] : j \in 1..(k - 1)}
            IN  k > 0 =>
                  /\ halted' = "panic"
                  /\ cp'.panic
                  /\ cp'.nr_cur_alloc = cp.nr_cur_alloc - (k - 1)
                  /\ cp'.alloc_hash = cp.alloc_hash \ before
                  /\ \A t \in SlabIds :
                        (\A x \in before : x[1] # t) =>
                            /\ cp'.slab[t] = cp.slab[t]
                            /\ NrOnList(cp'.empty_slab_list, t)
                                 = NrOnList(cp.empty_slab_list, t)
                            /\ NrOnList(cp'.partial_slab_list, t)
                                 = NrOnList(cp.partial_slab_list, t)
                            /\ NrOnList(cp'.full_slab_list, t)
                                 = NrOnList(cp.full_slab_list, t)
                  /\ k = 1 => cp' = [cp EXCEPT !.panic = TRUE]
      ]_vars
\* The kernel has panicked in the slab layer's free while objects were
\* allocated and tracked.
C37_PanickedOnUnknown ==
    /\ __use_bufctls
    /\ halted = "panic" /\ cp.panic
    /\ \E p \in Ctxs : ctx[p].pc = "d_depot"
    /\ cp.nr_cur_alloc > 0 /\ cp.alloc_hash # {}

\* The slabs linked on the cache's three lists.
LinkedSlabs ==
    Range(cp.empty_slab_list) \cup Range(cp.partial_slab_list)
        \cup Range(cp.full_slab_list)
RECURSIVE SumOver(_, _)
SumOver(f, S) ==
    IF S = {} THEN 0
    ELSE LET x == CHOOSE y \in S : TRUE IN f[x] + SumOver(f, S \ {x})
\* The sum of num_busy_obj over the cache's slabs.
BusySum == SumOver([t \in SlabIds |-> cp.slab[t].num_busy_obj], LinkedSlabs)
\* Objects callers hold, and objects an operation has in hand between the
\* magazine layer and the slab layer or the caller.
NrHeld == SumOver(held, Slots)
NrInFlight == SumOver([x \in Slots |-> NrInHand(x)], Slots)

\* C38: whenever the cache lock is free, nr_cur_alloc equals the sum of
\* num_busy_obj over the cache's slabs and equals the number of objects
\* callers hold plus the rounds in the cache's magazines plus the objects an
\* operation has in hand; with no operation in progress it is held plus
\* cached.
C38_CounterIsBusySum ==
    cache_lock = 0 =>
        /\ cp.nr_cur_alloc = BusySum
        /\ cp.nr_cur_alloc = NrHeld + NrRounds + NrInFlight
        /\ AllIdle => cp.nr_cur_alloc = NrHeld + NrRounds
\* Callers hold objects, magazines cache others, and a free has one in hand.
C38_HeldCachedInFlight ==
    /\ cache_lock = 0
    /\ NrHeld > 0 /\ NrRounds > 1 /\ NrInFlight > 0
    /\ Cardinality(LinkedSlabs) > 1

\* The addresses on the lists of a hash table, as a sequence.
RECURSIVE Entries(_, _)
Entries(tbl, i) == IF i > Len(tbl) THEN <<>> ELSE tbl[i] \o Entries(tbl, i + 1)
NrEntries(tbl, a) == Len(SelectSeq(Entries(tbl, 1), LAMBDA y : y = a))

\* C36: the hash grows in place: a table of twice the lists comes from the
\* base allocator, every entry of the old table is on the new table's list
\* for its address and on no other, exactly once; when the base allocator
\* gives no table the old table stays, with the new entry on it; the old
\* table goes back to the base allocator unless it is the static one, which
\* is never freed.
C36_ResizeInPlace ==
    /\ [](/\ Len(hs.alloc_hash) = hs.hh.nr_hash_lists
          /\ hs.hh.nr_hash_lists = Pow2(hs.hh.nr_hash_bits)
          /\ \A a \in HashAddrs :
                /\ NrEntries(hs.alloc_hash, a) = (IF a \in hs.busy THEN 1 ELSE 0)
                /\ a \in hs.busy =>
                     \E k \in 1..Len(hs.alloc_hash[hash_ptr(a, hs.hh.nr_hash_bits) + 1]) :
                        hs.alloc_hash[hash_ptr(a, hs.hh.nr_hash_bits) + 1][k] = a
          /\ ~hs.freed_static
          /\ hs.base_tables = (IF hs.is_static THEN 0 ELSE 1))
    /\ [][/\ hs'.hh.nr_hash_lists \in {hs.hh.nr_hash_lists, 2 * hs.hh.nr_hash_lists}
          /\ hs'.hh.nr_hash_lists # hs.hh.nr_hash_lists =>
                /\ hs.hh.nr_items + 1 > hs.hh.load_limit
                /\ ~hs'.is_static
          /\ (hs'.hh.nr_hash_lists = hs.hh.nr_hash_lists /\ hs'.busy # hs.busy) =>
                /\ hs'.is_static = hs.is_static
                /\ \A i \in 1..Len(hs.alloc_hash) :
                      \A a \in HashAddrs :
                         a \in hs.busy \cap hs'.busy =>
                            ((\E k \in 1..Len(hs.alloc_hash[i]) : hs.alloc_hash[i][k] = a)
                              <=> (\E k \in 1..Len(hs'.alloc_hash[i]) :
                                      hs'.alloc_hash[i][k] = a))]_vars

\* The table was enlarged twice, the second time from a table of the base
\* allocator, with several entries carried over.
C36_Rehashed ==
    /\ ~hs.is_static
    /\ hs.hh.nr_hash_bits >= HashInitBits + 2
    /\ Cardinality(hs.busy) >= 3

\* C40: the helper's item count is the number of entries in the table.
C40_ItemsAreEntries == hs.hh.nr_items = Len(Entries(hs.alloc_hash, 1))

\* C31, as stated: a CPU that holds a cache lock takes no per-CPU or depot
\* lock and enters neither kmem_cache_alloc nor kmem_cache_free, and no CPU
\* takes a cache lock while it holds a depot lock.
C31_CacheLockAlone ==
    \A p \in NestCpus :
       /\ \A i, j \in 1..Len(nest.hold[p]) :
             i < j =>
                /\ ~(nest.hold[p][i][1] = "cache"
                       /\ nest.hold[p][j][1] \in {"pcc", "depot"})
                /\ ~(nest.hold[p][i][1] = "depot" /\ nest.hold[p][j][1] = "cache")
       /\ (nest.stack[p] # <<>> /\ NestTop(p).pc \in {"a_pcc", "f_pcc"}) =>
             \A i \in 1..Len(nest.hold[p]) : nest.hold[p][i][1] # "cache"

\* C31, amended: the cache lock of a cache is never held while a lock of
\* the same cache or of any user cache is taken.  Locks are taken under a
\* cache lock only for a cache with bufctls, by kmem_cache_grow and
\* kmem_slab_destroy, whose calls into the slab-record and bufctl caches
\* take those caches' locks and the magazine cache's.  A cache lock is
\* taken under a depot lock only in depot_destroy, which holds the depot
\* lock of the cache being destroyed: that cache's own cache lock in
\* drain_mag, and the magazine cache's when a magazine is freed.
C31_CacheLockScope ==
    \A p \in NestCpus :
       \A i, j \in 1..Len(nest.hold[p]) :
          i < j =>
             /\ nest.hold[p][i][1] = "cache" =>
                  /\ nest.hold[p][j][2] # nest.hold[p][i][2]
                  /\ nest.hold[p][j][2] \notin UserCaches
                  /\ NestUsesBufctls(nest.hold[p][i][2])
                  /\ \E k \in 1..Len(nest.stack[p]) :
                        /\ nest.stack[p][k].kc = nest.hold[p][i][2]
                        /\ nest.stack[p][k].pc \in
                              {"g_arena", "g_bufctl", "g_fail", "k_bc", "k_in"}
             /\ (nest.hold[p][i][1] = "depot" /\ nest.hold[p][j][1] = "cache") =>
                  /\ NestBottom(p).fn = "destroy"
                  /\ NestBottom(p).pc \in {"dd_rin", "dd_again"}
                  /\ nest.hold[p][i][2] = NestBottom(p).kc
                  /\ nest.hold[p][j][2] \in
                        {NestBottom(p).kc, "kmem_magazine_cache"}

\* One CPU frees a bufctl or a slab record under the cache lock of the
\* cache with bufctls and holds that cache's depot lock too; another is in
\* drain_mag with the cache lock taken under the depot lock.
C31_HeldAcrossCalls ==
    \E p, q \in NestCpus :
       /\ \E i, j \in 1..Len(nest.hold[p]) :
             /\ i < j
             /\ nest.hold[p][i] = <<"cache", "ub">>
             /\ nest.hold[p][j][1] = "depot"
             /\ nest.hold[p][j][2] \in MetaCaches
       /\ nest.hold[q] = <<<<"depot", "ue">>, <<"cache", "ue">>>>

C33_NoWaitCycle ==
    /\ \A p \in NestCpus : ~NestFollows(p, p, NNestCpus)
    /\ \A p, q \in NestCpus :
          \A i \in 1..Len(nest.hold[p]) :
             \A j \in 1..Len(nest.hold[q]) :
                (nest.hold[p][i] = nest.hold[q][j]
                  /\ (nest.hold[p][i][1] # "pcc" \/ p = q)) => (p = q /\ i = j)

\* A CPU in depot_destroy frees a magazine to the magazine cache, which
\* allocates a magazine from itself; that CPU holds the destroyed cache's
\* depot lock and spins on the magazine cache's cache lock, held by another
\* CPU that allocates a magazine for a free under the cache lock of the
\* cache with bufctls.
C33_SpinsUnderLocks ==
    \E p, q \in NestCpus :
       /\ Len(nest.stack[p]) = 3
       /\ nest.stack[p][1] = NestFrame("alloc", "kmem_magazine_cache", "s_lock")
       /\ nest.stack[p][2].fn = "free"
       /\ nest.stack[p][2].kc = "kmem_magazine_cache"
       /\ nest.stack[p][3].fn = "destroy"
       /\ NestBlockedOn(p, q)
       /\ NestHolds(q, <<"cache", "ub">>)

\* C39: a magazine that kmem_cache_free obtains from the magazine cache has
\* no rounds: assert(mag->nr_rounds == 0) never fails.
C39_NewMagazinesEmpty == ~mc.assert_failed

=============================================================================
